---- MODULE Spec2Model ----
(***************************************************************************)
(* A model of the goclaw gateway: the per-connection session (Conn), the   *)
(* node registry, the invoker, and the pairing service with its store.     *)
(*                                                                         *)
(* Every goroutine of the program is a process of the model, stepping at   *)
(* the granularity of the program's critical sections: one action per     *)
(* mutex-protected region or transport operation.                          *)
(*                                                                         *)
(* Random identifiers (crypto/rand, 128 bits or more) are modelled as      *)
(* fresh values drawn from counters: connection ids are the connection     *)
(* indexes, challenge nonces, invoke ids, request ids and token values     *)
(* come from nextNonce, nextId, nextReq and nextTok.                       *)
(***************************************************************************)
EXTENDS Integers, Sequences, FiniteSets, TLC

\* ------------------------------------------------------------------------
\* Bounds of the model
\* ------------------------------------------------------------------------
MaxConns == 2
MaxInvokes == 2

Conns == 1..MaxConns
Callers == 1..MaxInvokes
InvokeIds == 1..MaxInvokes

NodeIds == {"n1", "n2"}
Roles == {"", "operator"}

\* the roles a connect request with a device payload asks for
DeviceRoles == {""}

\* InvokeRequest.TimeoutMs as the callers pass it: the zero value and a positive one
Timeouts == {0, 5000}

\* ------------------------------------------------------------------------
\* Program constants
\* ------------------------------------------------------------------------
ServerProtocol == 3
ResultChanCap == 1

\* ------------------------------------------------------------------------
\* State
\* ------------------------------------------------------------------------
VARIABLES
    cfg,        \* GatewayConfig / ServerConfig: pairing attached, auth mode
    conn,       \* Conn objects and the position of each Run goroutine
    byNodeID,   \* Registry.byNodeID: nodeID -> ConnID of the session (0 absent)
    byConnID,   \* Registry.byConnID: ConnID -> nodeID ("" absent)
    gwConns,    \* Gateway.conns
    pending,    \* keys of Invoker.pending
    pi,         \* the pendingInvoke objects, by invoke id
    inv,        \* the Invoke calls in progress
    nextId,     \* ids minted by generateInvokeID so far
    nextNonce,  \* challenge nonces issued so far
    memPending, \* Store.state.PendingByID
    memPaired,  \* Store.state.PairedByDevice
    diskPending,\* content of pending.json
    diskPaired, \* content of paired.json
    svc,        \* the pairing Service calls in progress, by calling thread
    nextReq,    \* request ids minted by GenerateNonce so far
    nextTok,    \* token values minted by GeneratePairingToken so far
    now,        \* time.Now().UnixMilli()
    faults,     \* persistence failures so far
    revoked,    \* <<deviceID, role, token>> of every RevokeDeviceToken that has returned a record
    srv,        \* Server: the context, the listener and the goroutines that shut it down
    fs          \* the state directory besides the two target files: the .tmp files

vars == <<cfg, conn, byNodeID, byConnID, gwConns, pending, pi, inv, nextId, nextNonce,
          memPending, memPaired, diskPending, diskPaired, svc, nextReq, nextTok, now, faults, revoked,
          srv, fs>>

connVars == <<cfg, conn, byNodeID, byConnID, gwConns, nextNonce>>
sysVars == <<srv, fs>>
regVars == <<byNodeID, byConnID>>
invVars == <<pending, pi, inv, nextId>>
storeVars == <<memPending, memPaired, diskPending, diskPaired>>
pairVars == <<memPending, memPaired, diskPending, diskPaired, svc, nextReq, nextTok, now, faults, revoked>>

NoResult == [ID |-> 0, OK |-> FALSE]

\* protocol.NodeInvokeResult as sent by a peer, for any invoke id
Results == [ID : InvokeIds, OK : {TRUE}]

NewPendingInvoke(nodeID) == [nodeID |-> nodeID, result |-> <<>>, cancel |-> 0]

\* An Invoke call: its request, the session Registry.Get returned, the id it
\* minted, the time its select has waited, and what it returned.
InitInvoke ==
    [pc |-> "idle", NodeID |-> "", TimeoutMs |-> 0, session |-> 0, id |-> 0,
     elapsed |-> 0, ret |-> "", res |-> NoResult]

\* ------------------------------------------------------------------------
\* Node registry
\* ------------------------------------------------------------------------
\* Registry.Register as it would be without the cleanup of the old session's
\* connID mapping
RegisterByConnIDKeepOld(bc, bn, nodeID, c) ==
    [d \in Conns |-> IF d = c THEN nodeID ELSE bc[d]]

\* Registry.Register: replaces the session of the nodeID, dropping the old
\* session's connID mapping.
RegisterByConnID(bc, bn, nodeID, c) ==
    [d \in Conns |->
        IF d = c THEN nodeID
        ELSE IF bn[nodeID] # 0 /\ d = bn[nodeID] THEN ""
        ELSE bc[d]]

RegisterByNodeID(bn, nodeID, c) == [bn EXCEPT ![nodeID] = c]

\* Registry.Get
RegistryGet(nodeID) == byNodeID[nodeID]

\* Registry.Unregister: the nodeID found for the connID ("" when not found)
UnregisterFound(c) == byConnID[c]

ResolveRole(role) == IF role = "" THEN "node" ELSE role

\* ------------------------------------------------------------------------
\* Identity (pairing/identity.go)
\* ------------------------------------------------------------------------
\* Public keys as the client writes them: "kA" and "kA=" are the unpadded and
\* the padded base64url text of the same raw key A; "bad" does not decode to
\* 32 bytes.
PublicKeys == {"kA", "kA=", "bad"}
RawKeys == {"A", "B"}

\* decodePublicKey: the raw key, "" on a decode error
decodePublicKey(pk) ==
    CASE pk = "kA"  -> "A"
      [] pk = "kA=" -> "A"
      [] OTHER      -> ""

\* hex(sha256(raw)): an injective function of the raw key
Sha256Hex(raw) == "d" \o raw

DeriveDeviceID(pk) ==
    IF decodePublicKey(pk) = "" THEN "" ELSE Sha256Hex(decodePublicKey(pk))

DeviceIds == {Sha256Hex(k) : k \in RawKeys}

CapsLists == {<<>>, <<"cam">>}

RECURSIVE JoinScopes(_)
JoinScopes(scopes) ==
    IF Len(scopes) = 0 THEN ""
    ELSE IF Len(scopes) = 1 THEN scopes[1]
    ELSE scopes[1] \o "," \o JoinScopes(Tail(scopes))

\* BuildAuthPayload: "v2|deviceId|clientId|clientMode|role|scopes|signedAtMs|token|nonce"
BuildAuthPayload(p) ==
    "v2|" \o p.DeviceID \o "|" \o p.ClientID \o "|" \o p.ClientMode \o "|" \o p.Role
          \o "|" \o JoinScopes(p.Scopes) \o "|" \o ToString(p.SignedAtMs)
          \o "|" \o p.Token \o "|" \o p.Nonce

\* An Ed25519 signature is the pair of the signing key and the signed text:
\* only the holder of the raw key produces a signature that verifies under it.
Sign(rawKey, payload) == [signer |-> rawKey, payload |-> payload]

VerifySignature(pk, payload, sig) ==
    /\ decodePublicKey(pk) # ""
    /\ sig.signer = decodePublicKey(pk)
    /\ sig.payload = payload

\* ------------------------------------------------------------------------
\* Legacy auth (gateway/auth.go) and connect validation
\* ------------------------------------------------------------------------
ConfigToken == "secret"

\* Authenticate: "" when accepted, else the failure reason
Authenticate(c, provided) ==
    CASE c.authMode = "none" -> ""
      [] c.authMode = "token" ->
            IF provided = "" THEN "token_missing"
            ELSE IF provided # ConfigToken THEN "token_mismatch"
            ELSE ""
      [] OTHER -> "unknown_auth_mode"

\* protocol.ValidateConnect
ValidateConnect(f) ==
    ~(ServerProtocol < f.MinProtocol \/ ServerProtocol > f.MaxProtocol)

NoDevice ==
    [ID |-> "", PublicKey |-> "", Signature |-> Sign("", ""), SignedAt |-> 0, Nonce |-> ""]

BaseFrame ==
    [isReq |-> TRUE, Method |-> "connect", paramsValid |-> TRUE,
     MinProtocol |-> 3, MaxProtocol |-> 3, AuthToken |-> ConfigToken,
     Role |-> "", ClientID |-> "n1", ClientMode |-> "", Caps |-> <<>>,
     hasDevice |-> FALSE, Device |-> NoDevice]

\* the connect params of a connection that has not read any
NoParams == BaseFrame

InitConn ==
    [State |-> "none", pc |-> "accept", isLocal |-> FALSE, wsClosed |-> FALSE,
     challengeNonce |-> "", params |-> NoParams, hasParams |-> FALSE,
     DeviceID |-> "", DeviceToken |-> 0, action |-> "", reply |-> "", replyRequestID |-> 0,
     hr |-> NoResult, hrPi |-> 0, unreg |-> "", toCancel |-> {},
     tracked |-> FALSE, shutdownSent |-> FALSE, hrRet |-> FALSE]

\* the token the server puts into the signing payload (verifyDevice, step 1)
PayloadToken(c) == IF c.authMode = "token" THEN ConfigToken ELSE ""

\* The nonces a client can put into a device payload on connection c: the
\* challenge of this connection and the challenges seen on the others.
NonceChoices(c) == {conn[d].challengeNonce : d \in Conns}

\* Device payloads a client can build for a connect request with the given
\* role and caps: any key text, either device id, a signature by either raw
\* key (B is a key whose public half is never presented: a forger) over the
\* canonical payload with a nonce sn, and a nonce field dn.
DevicePayloads(c, role, caps) ==
    {[ID |-> id, PublicKey |-> pk,
      Signature |-> Sign(s, BuildAuthPayload(
            [DeviceID |-> id, ClientID |-> "n1", ClientMode |-> "",
             Role |-> ResolveRole(role), Scopes |-> caps, SignedAtMs |-> 0,
             Token |-> PayloadToken(cfg), Nonce |-> sn])),
      SignedAt |-> 0, Nonce |-> dn] :
        pk \in PublicKeys, id \in DeviceIds, s \in RawKeys,
        sn \in NonceChoices(c), dn \in NonceChoices(c)}

\* The first frames a peer can send on connection c.
FirstFrames(c) ==
    {[BaseFrame EXCEPT !.isReq = FALSE],
     [BaseFrame EXCEPT !.Method = "node.invoke.result"],
     [BaseFrame EXCEPT !.paramsValid = FALSE],
     [BaseFrame EXCEPT !.MinProtocol = 0, !.MaxProtocol = 0],
     [BaseFrame EXCEPT !.MinProtocol = 4, !.MaxProtocol = 5],
     [BaseFrame EXCEPT !.AuthToken = ""],
     [BaseFrame EXCEPT !.AuthToken = "wrong"]}
    \cup {[BaseFrame EXCEPT !.Role = r, !.ClientID = n] : r \in Roles, n \in NodeIds}
    \cup (IF cfg.pairing
          THEN UNION {{[BaseFrame EXCEPT !.Role = r, !.Caps = s, !.hasDevice = TRUE,
                                         !.Device = d, !.AuthToken = a] :
                            d \in DevicePayloads(c, r, s), a \in {BaseFrame.AuthToken, "wrong"}} :
                      r \in DeviceRoles, s \in {<<>>}}
          ELSE {})

\* processConnect as it would be without the check of the request's method
ConnectCheckAnyMethod(f) ==
    IF ~f.isReq THEN "DROP"
    ELSE IF ~f.paramsValid THEN "INVALID_JSON"
    ELSE IF ~ValidateConnect(f) THEN "PROTOCOL_MISMATCH"
    ELSE IF Authenticate(cfg, f.AuthToken) # "" THEN "UNAUTHORIZED"
    ELSE ""

\* processConnect up to the device verification: the error code replied,
\* "DROP" when the frame is rejected without a reply, "" when it passes.
ConnectCheck(f) ==
    IF ~f.isReq THEN "DROP"
    ELSE IF f.Method # "connect" THEN "INVALID_METHOD"
    ELSE IF ~f.paramsValid THEN "INVALID_JSON"
    ELSE IF ~ValidateConnect(f) THEN "PROTOCOL_MISMATCH"
    ELSE IF Authenticate(cfg, f.AuthToken) # "" THEN "UNAUTHORIZED"
    ELSE ""

\* verifyDevice steps 1-4 as they would be without the nonce comparison
VerifyDeviceCheckNoNonce(c, f) ==
    LET dev == f.Device
        payload == BuildAuthPayload(
            [DeviceID |-> dev.ID, ClientID |-> f.ClientID, ClientMode |-> f.ClientMode,
             Role |-> ResolveRole(f.Role), Scopes |-> f.Caps, SignedAtMs |-> dev.SignedAt,
             Token |-> PayloadToken(cfg), Nonce |-> dev.Nonce])
    IN  IF ~VerifySignature(dev.PublicKey, payload, dev.Signature) THEN "INVALID_SIGNATURE"
        ELSE IF DeriveDeviceID(dev.PublicKey) # dev.ID THEN "INVALID_DEVICE_ID"
        ELSE ""

\* verifyDevice steps 1-4: the error code replied, "" when the payload passes
VerifyDeviceCheck(c, f) ==
    LET dev == f.Device
        payload == BuildAuthPayload(
            [DeviceID |-> dev.ID, ClientID |-> f.ClientID, ClientMode |-> f.ClientMode,
             Role |-> ResolveRole(f.Role), Scopes |-> f.Caps, SignedAtMs |-> dev.SignedAt,
             Token |-> PayloadToken(cfg), Nonce |-> dev.Nonce])
    IN  IF ~VerifySignature(dev.PublicKey, payload, dev.Signature) THEN "INVALID_SIGNATURE"
        ELSE IF dev.Nonce # conn[c].challengeNonce THEN "INVALID_NONCE"
        ELSE IF DeriveDeviceID(dev.PublicKey) # dev.ID THEN "INVALID_DEVICE_ID"
        ELSE ""

\* ------------------------------------------------------------------------
\* Pairing store (pairing/store.go)
\* ------------------------------------------------------------------------
\* Go maps are functions whose domain is the set of present keys; a pointer
\* that may be nil is a sequence of length 0 or 1.
EmptyMap == [x \in {} |-> 0]
MapPut(m, k, v) == [x \in (DOMAIN m) \cup {k} |-> IF x = k THEN v ELSE m[x]]
MapDel(m, k) == [x \in (DOMAIN m) \ {k} |-> m[x]]
Nil == <<>>
Ptr(v) == <<v>>

\* PendingTTLMs, and the age test of Store.PruneExpiredPending at time t
PendingTTLMs == 5 * 60 * 1000

Expired(req, t) == t - req.Timestamp > PendingTTLMs

\* number of persistence failures (saveJSON returning an error) in one run
MaxSaveFaults == 1

\* Store.GetPairedDevice / Store.GetPendingRequest
GetPairedDevice(deviceID) ==
    IF deviceID \in DOMAIN memPaired THEN Ptr(memPaired[deviceID]) ELSE Nil

GetPendingRequest(requestID) ==
    IF requestID \in DOMAIN memPending THEN Ptr(memPending[requestID]) ELSE Nil

\* Store.ListPending: the snapshots a caller can get, sorted by timestamp
\* descending; entries of equal timestamp come in any order.
RECURSIVE SortedLists(_, _)
SortedLists(m, ids) ==
    IF ids = {} THEN {<<>>}
    ELSE LET top == {i \in ids : \A j \in ids : m[i].Timestamp >= m[j].Timestamp}
         IN  UNION {{<<m[i]>> \o rest : rest \in SortedLists(m, ids \ {i})} : i \in top}

ListPending == SortedLists(memPending, DOMAIN memPending)

\* scopesContainAll
scopesContainAll(have, need) ==
    \/ Len(need) = 0
    \/ \A i \in 1..Len(need) : \E j \in 1..Len(have) : have[j] = need[i]

\* VerifyPairingToken: constant-time equality of the two token texts
VerifyPairingToken(provided, expected) == provided = expected

\* Store.SetDeviceToken on the in-memory map (the device is present)
WithDeviceToken(paired, deviceID, role, token) ==
    [paired EXCEPT ![deviceID].Tokens = MapPut(@, role, token)]

NewToken(value, role, scopes, rotated) ==
    [Token |-> value, Role |-> role, Scopes |-> scopes, CreatedAtMs |-> now,
     RotatedAtMs |-> rotated, RevokedAtMs |-> 0, LastUsedMs |-> 0]

\* ------------------------------------------------------------------------
\* Pairing service calls (pairing/service.go): one frame per calling thread
\* ------------------------------------------------------------------------
MaxOps == 1
Ops == (MaxConns + 1)..(MaxConns + MaxOps)
Threads == Conns \cup Ops

NoFrame ==
    [pc |-> "idle", op |-> "", cont |-> "",
     DeviceID |-> "", PublicKey |-> "", Role |-> "", Scopes |-> <<>>, IsLocal |-> FALSE,
     RequestID |-> 0, Token |-> 0,
     device |-> Nil, existing |-> Nil, pend |-> Nil, removed |-> Nil, newdev |-> Nil,
     tok |-> Nil, err |-> FALSE, pruned |-> 0, afterRevoke |-> FALSE,
     file |-> "", data |-> EmptyMap, before |-> EmptyMap,
     status |-> "", outRequestID |-> 0, outDevice |-> Nil, outTok |-> Nil, reason |-> ""]

\* token values minted in one run of the token operations
MaxTokens == 2

\* goroutines calling the token operations concurrently
MaxTokenCallers == 2
TokenCallers == {t \in Threads : t <= MaxTokenCallers}

\* saveJSON either replaces the file by the new content or fails and leaves it
SaveOutcomes(n) == IF n < MaxSaveFaults THEN {TRUE, FALSE} ELSE {TRUE}

\* Store.Reload: re-reads both files into memory
StoreReload(t) ==
    /\ svc[t].pc = "cps_reload"
    /\ memPending' = diskPending
    /\ memPaired' = diskPaired
    /\ svc' = [svc EXCEPT ![t].pc = "cps_get"]
    /\ UNCHANGED <<connVars, sysVars, invVars, revoked, diskPending, diskPaired, nextReq, nextTok, now, faults>>

\* the return of RequestPairing into its caller
RPReturn(f, pend, err) ==
    CASE f.cont = "cps_local" ->
            IF err \/ pend = Nil
            THEN [f EXCEPT !.pc = "ret", !.status = "paired", !.outDevice = f.device,
                           !.pend = pend, !.err = err]
            ELSE [f EXCEPT !.pc = "ap_remove", !.pend = pend, !.err = err,
                           !.RequestID = pend[1].RequestID]
      [] f.cont = "cps_remote" ->
            [f EXCEPT !.pc = "ret", !.status = "pairing-required", !.pend = pend, !.err = err,
                      !.outRequestID = IF pend = Nil THEN 0 ELSE pend[1].RequestID]
      [] OTHER ->
            [f EXCEPT !.pc = "ret", !.pend = pend, !.err = err]

\* the return of Approve into its caller
APReturn(f, result, err) ==
    CASE f.cont = "cps_local" ->
            IF err
            THEN [f EXCEPT !.pc = "ret", !.status = "pairing-required", !.err = err,
                           !.outRequestID = f.pend[1].RequestID]
            ELSE [f EXCEPT !.pc = "ret", !.status = "auto-approved", !.outDevice = result]
      [] OTHER ->
            [f EXCEPT !.pc = "ret", !.outDevice = result, !.err = err]

\* CheckPairingStatus as it would be without the comparison of the public key
CheckPairingStatusAnyKey(t) ==
    /\ svc[t].pc = "cps_get"
    /\ LET f == svc[t]
           device == GetPairedDevice(f.DeviceID)
       IN  svc' = [svc EXCEPT ![t] =
                IF device # Nil
                THEN [f EXCEPT !.pc = "ret", !.status = "paired",
                               !.device = device, !.outDevice = device]
                ELSE [f EXCEPT !.pc = "rp_get", !.device = device,
                               !.cont = IF f.IsLocal THEN "cps_local" ELSE "cps_remote"]]
    /\ UNCHANGED <<connVars, sysVars, invVars, revoked, storeVars, nextReq, nextTok, now, faults>>

\* CheckPairingStatus after the reload: the paired branch, or the call of
\* RequestPairing for the loopback or the remote branch
CheckPairingStatus(t) ==
    /\ svc[t].pc = "cps_get"
    /\ LET f == svc[t]
           device == GetPairedDevice(f.DeviceID)
       IN  svc' = [svc EXCEPT ![t] =
                IF device # Nil /\ device[1].PublicKey = f.PublicKey
                THEN [f EXCEPT !.pc = "ret", !.status = "paired",
                               !.device = device, !.outDevice = device]
                ELSE [f EXCEPT !.pc = "rp_get", !.device = device,
                               !.cont = IF f.IsLocal THEN "cps_local" ELSE "cps_remote"]]
    /\ UNCHANGED <<connVars, sysVars, invVars, revoked, storeVars, nextReq, nextTok, now, faults>>

\* RequestPairing: the check for a device already paired with the same key
RequestPairingGet(t) ==
    /\ svc[t].pc = "rp_get"
    /\ LET f == svc[t]
           existing == GetPairedDevice(f.DeviceID)
       IN  svc' = [svc EXCEPT ![t] =
                IF existing # Nil /\ existing[1].PublicKey = f.PublicKey
                THEN RPReturn([f EXCEPT !.existing = existing], Nil, FALSE)
                ELSE [f EXCEPT !.pc = "rp_list", !.existing = existing]]
    /\ UNCHANGED <<connVars, sysVars, invVars, revoked, storeVars, nextReq, nextTok, now, faults>>

\* RequestPairing: the scan of ListPending for a request of this device
RequestPairingList(t) ==
    /\ svc[t].pc = "rp_list"
    /\ \E list \in ListPending :
         LET f == svc[t]
             hits == {i \in 1..Len(list) : list[i].DeviceID = f.DeviceID}
             first == CHOOSE i \in hits : \A j \in hits : i <= j
         IN  svc' = [svc EXCEPT ![t] =
                IF hits # {} THEN RPReturn(f, Ptr(list[first]), FALSE)
                ELSE [f EXCEPT !.pc = "rp_add"]]
    /\ UNCHANGED <<connVars, sysVars, invVars, revoked, storeVars, nextReq, nextTok, now, faults>>

\* RequestPairing: the new pending request and Store.AddPending
RequestPairingAdd(t) ==
    /\ svc[t].pc = "rp_add"
    /\ LET f == svc[t]
           req == [RequestID |-> nextReq + 1, DeviceID |-> f.DeviceID,
                   PublicKey |-> f.PublicKey, Role |-> f.Role, Scopes |-> f.Scopes,
                   Silent |-> f.IsLocal,
                   IsRepair |-> (f.existing # Nil /\ f.existing[1].PublicKey # f.PublicKey),
                   Timestamp |-> now]
       IN  /\ nextReq' = nextReq + 1
           /\ memPending' = MapPut(memPending, req.RequestID, req)
           /\ \E ok \in SaveOutcomes(faults) :
                /\ diskPending' = IF ok THEN memPending' ELSE diskPending
                /\ faults' = IF ok THEN faults ELSE faults + 1
                /\ svc' = [svc EXCEPT ![t] =
                        IF ok THEN RPReturn(f, Ptr(req), FALSE) ELSE RPReturn(f, Nil, TRUE)]
    /\ UNCHANGED <<connVars, sysVars, invVars, revoked, memPaired, diskPaired, nextTok, now>>

\* Approve as it would be if it looked the request up and left it in the
\* pending map
ApproveRemoveKeep(t) ==
    /\ svc[t].pc = "ap_remove"
    /\ LET f == svc[t]
           removed == GetPendingRequest(f.RequestID)
       IN  IF removed = Nil
           THEN svc' = [svc EXCEPT ![t] = APReturn(f, Nil, FALSE)]
           ELSE svc' = [svc EXCEPT ![t] = [f EXCEPT !.pc = "ap_get", !.removed = removed]]
    /\ UNCHANGED <<connVars, sysVars, invVars, revoked, storeVars, nextReq, nextTok, now, faults>>

\* Approve: Store.RemovePending (the error of its save is dropped)
ApproveRemove(t) ==
    /\ svc[t].pc = "ap_remove"
    /\ LET f == svc[t]
           removed == GetPendingRequest(f.RequestID)
       IN  IF removed = Nil
           THEN /\ svc' = [svc EXCEPT ![t] = APReturn(f, Nil, FALSE)]
                /\ UNCHANGED <<memPending, diskPending, faults>>
           ELSE /\ memPending' = MapDel(memPending, f.RequestID)
                /\ \E ok \in SaveOutcomes(faults) :
                     /\ diskPending' = IF ok THEN memPending' ELSE diskPending
                     /\ faults' = IF ok THEN faults ELSE faults + 1
                /\ svc' = [svc EXCEPT ![t] = [f EXCEPT !.pc = "ap_get", !.removed = removed]]
    /\ UNCHANGED <<connVars, sysVars, invVars, revoked, memPaired, diskPaired, nextReq, nextTok, now>>

\* Approve: the paired device built from the request, merged into an existing one
ApproveGet(t) ==
    /\ svc[t].pc = "ap_get"
    /\ LET f == svc[t]
           removed == f.removed[1]
           existing == GetPairedDevice(removed.DeviceID)
           device == IF existing # Nil
                     THEN [existing[1] EXCEPT !.PublicKey = removed.PublicKey,
                                              !.ApprovedAtMs = now]
                     ELSE [DeviceID |-> removed.DeviceID, PublicKey |-> removed.PublicKey,
                           Role |-> removed.Role, Scopes |-> removed.Scopes,
                           Tokens |-> EmptyMap, CreatedAtMs |-> now, ApprovedAtMs |-> now]
       IN  svc' = [svc EXCEPT ![t] =
                [f EXCEPT !.pc = "ap_setpaired", !.existing = existing, !.newdev = Ptr(device)]]
    /\ UNCHANGED <<connVars, sysVars, invVars, revoked, storeVars, nextReq, nextTok, now, faults>>

\* Approve: Store.SetPaired
ApproveSetPaired(t) ==
    /\ svc[t].pc = "ap_setpaired"
    /\ LET f == svc[t]
           device == f.newdev[1]
       IN  /\ memPaired' = MapPut(memPaired, device.DeviceID, device)
           /\ \E ok \in SaveOutcomes(faults) :
                /\ diskPaired' = IF ok THEN memPaired' ELSE diskPaired
                /\ faults' = IF ok THEN faults ELSE faults + 1
                /\ svc' = [svc EXCEPT ![t] =
                        IF ~ok THEN APReturn(f, Nil, TRUE)
                        ELSE IF f.removed[1].Role # "" THEN [f EXCEPT !.pc = "ap_settoken"]
                        ELSE [f EXCEPT !.pc = "ap_refetch"]]
    /\ UNCHANGED <<connVars, sysVars, invVars, revoked, memPending, diskPending, nextReq, nextTok, now>>

\* Approve: the fresh token for the requested role and Store.SetDeviceToken
ApproveSetToken(t) ==
    /\ svc[t].pc = "ap_settoken"
    /\ LET f == svc[t]
           removed == f.removed[1]
           token == NewToken(nextTok + 1, removed.Role, removed.Scopes, 0)
       IN  /\ nextTok' = nextTok + 1
           /\ IF removed.DeviceID \notin DOMAIN memPaired
              THEN /\ svc' = [svc EXCEPT ![t] = APReturn(f, Nil, TRUE)]
                   /\ UNCHANGED <<memPaired, diskPaired, faults>>
              ELSE /\ memPaired' = WithDeviceToken(memPaired, removed.DeviceID, removed.Role, token)
                   /\ \E ok \in SaveOutcomes(faults) :
                        /\ diskPaired' = IF ok THEN memPaired' ELSE diskPaired
                        /\ faults' = IF ok THEN faults ELSE faults + 1
                        /\ svc' = [svc EXCEPT ![t] =
                                IF ok THEN [f EXCEPT !.pc = "ap_refetch"]
                                ELSE APReturn(f, Nil, TRUE)]
    /\ UNCHANGED <<connVars, sysVars, invVars, revoked, memPending, diskPending, nextReq, now>>

\* Approve: the re-fetch of the device that is returned
ApproveRefetch(t) ==
    /\ svc[t].pc = "ap_refetch"
    /\ svc' = [svc EXCEPT ![t] =
            APReturn(svc[t], GetPairedDevice(svc[t].removed[1].DeviceID), FALSE)]
    /\ UNCHANGED <<connVars, sysVars, invVars, revoked, storeVars, nextReq, nextTok, now, faults>>

\* Reject: Store.RemovePending
Reject(t) ==
    /\ svc[t].pc = "rj_remove"
    /\ LET f == svc[t]
           removed == GetPendingRequest(f.RequestID)
       IN  IF removed = Nil
           THEN /\ svc' = [svc EXCEPT ![t] = [f EXCEPT !.pc = "ret"]]
                /\ UNCHANGED <<memPending, diskPending, faults>>
           ELSE /\ memPending' = MapDel(memPending, f.RequestID)
                /\ \E ok \in SaveOutcomes(faults) :
                     /\ diskPending' = IF ok THEN memPending' ELSE diskPending
                     /\ faults' = IF ok THEN faults ELSE faults + 1
                /\ svc' = [svc EXCEPT ![t] = [f EXCEPT !.pc = "ret", !.removed = removed]]
    /\ UNCHANGED <<connVars, sysVars, invVars, revoked, memPaired, diskPaired, nextReq, nextTok, now>>

\* EnsureDeviceToken as it would be if it did not look at the revocation of
\* the stored token
EnsureDeviceTokenKeepRevoked(t) ==
    /\ svc[t].pc = "en_get"
    /\ LET f == svc[t]
           device == GetPairedDevice(f.DeviceID)
           exists == device # Nil /\ f.Role \in DOMAIN device[1].Tokens
           tok == device[1].Tokens[f.Role]
           newTok == NewToken(nextTok + 1, f.Role, f.Scopes, IF exists THEN now ELSE 0)
       IN  IF device = Nil
           THEN /\ svc' = [svc EXCEPT ![t] = [f EXCEPT !.pc = "ret", !.outTok = Nil]]
                /\ UNCHANGED nextTok
           ELSE IF exists /\ scopesContainAll(tok.Scopes, f.Scopes)
           THEN /\ svc' = [svc EXCEPT ![t] = [f EXCEPT !.pc = "ret", !.outTok = Ptr(tok)]]
                /\ UNCHANGED nextTok
           ELSE /\ svc' = [svc EXCEPT ![t] = [f EXCEPT !.pc = "en_set", !.tok = Ptr(newTok)]]
                /\ nextTok' = nextTok + 1
    /\ UNCHANGED <<connVars, sysVars, invVars, revoked, storeVars, nextReq, now, faults>>

\* EnsureDeviceToken: the stored token when it is still good, else a new one
EnsureDeviceToken(t) ==
    /\ svc[t].pc = "en_get"
    /\ LET f == svc[t]
           device == GetPairedDevice(f.DeviceID)
           exists == device # Nil /\ f.Role \in DOMAIN device[1].Tokens
           tok == device[1].Tokens[f.Role]
           newTok == NewToken(nextTok + 1, f.Role, f.Scopes, IF exists THEN now ELSE 0)
       IN  IF device = Nil
           THEN /\ svc' = [svc EXCEPT ![t] = [f EXCEPT !.pc = "ret", !.outTok = Nil]]
                /\ UNCHANGED nextTok
           ELSE IF exists /\ tok.RevokedAtMs = 0 /\ scopesContainAll(tok.Scopes, f.Scopes)
           THEN /\ svc' = [svc EXCEPT ![t] = [f EXCEPT !.pc = "ret", !.outTok = Ptr(tok)]]
                /\ UNCHANGED nextTok
           ELSE /\ svc' = [svc EXCEPT ![t] = [f EXCEPT !.pc = "en_set", !.tok = Ptr(newTok)]]
                /\ nextTok' = nextTok + 1
    /\ UNCHANGED <<connVars, sysVars, invVars, revoked, storeVars, nextReq, now, faults>>

\* Store.SetDeviceToken as called by the three token operations, which drop
\* its error: nothing changes when the device is absent, and a failed save
\* leaves the file behind the memory.
SetDeviceTokenDropErr(f) ==
    IF f.DeviceID \notin DOMAIN memPaired
    THEN UNCHANGED <<memPaired, diskPaired, faults>>
    ELSE /\ memPaired' = WithDeviceToken(memPaired, f.DeviceID, f.Role, f.tok[1])
         /\ \E ok \in SaveOutcomes(faults) :
              /\ diskPaired' = IF ok THEN memPaired' ELSE diskPaired
              /\ faults' = IF ok THEN faults ELSE faults + 1

EnsureDeviceTokenSet(t) ==
    /\ svc[t].pc = "en_set"
    /\ SetDeviceTokenDropErr(svc[t])
    /\ svc' = [svc EXCEPT ![t] = [svc[t] EXCEPT !.pc = "ret", !.outTok = svc[t].tok]]
    /\ UNCHANGED <<connVars, sysVars, invVars, revoked, memPending, diskPending, nextReq, nextTok, now>>

\* VerifyDeviceToken as it would be if it compared the token before it looked
\* at the revocation
VerifyDeviceTokenMismatchFirst(t) ==
    /\ svc[t].pc = "vt_get"
    /\ LET f == svc[t]
           device == GetPairedDevice(f.DeviceID)
           tok == device[1].Tokens[f.Role]
           fail(reason) == [f EXCEPT !.pc = "ret", !.status = "fail", !.reason = reason]
       IN  svc' = [svc EXCEPT ![t] =
                IF device = Nil THEN fail("device-not-paired")
                ELSE IF f.Role \notin DOMAIN device[1].Tokens THEN fail("token-missing")
                ELSE IF ~VerifyPairingToken(f.Token, tok.Token) THEN fail("token-mismatch")
                ELSE IF tok.RevokedAtMs > 0 THEN fail("token-revoked")
                ELSE IF ~scopesContainAll(tok.Scopes, f.Scopes) THEN fail("scope-mismatch")
                ELSE [f EXCEPT !.pc = "vt_set", !.tok = Ptr([tok EXCEPT !.LastUsedMs = now])]]
    /\ UNCHANGED <<connVars, sysVars, invVars, revoked, storeVars, nextReq, nextTok, now, faults>>

\* VerifyDeviceToken: the five checks in order, on the device read at entry
VerifyDeviceToken(t) ==
    /\ svc[t].pc = "vt_get"
    /\ LET f == svc[t]
           device == GetPairedDevice(f.DeviceID)
           tok == device[1].Tokens[f.Role]
           fail(reason) == [f EXCEPT !.pc = "ret", !.status = "fail", !.reason = reason]
       IN  svc' = [svc EXCEPT ![t] =
                IF device = Nil THEN fail("device-not-paired")
                ELSE IF f.Role \notin DOMAIN device[1].Tokens THEN fail("token-missing")
                ELSE IF tok.RevokedAtMs > 0 THEN fail("token-revoked")
                ELSE IF ~VerifyPairingToken(f.Token, tok.Token) THEN fail("token-mismatch")
                ELSE IF ~scopesContainAll(tok.Scopes, f.Scopes) THEN fail("scope-mismatch")
                ELSE [f EXCEPT !.pc = "vt_set", !.tok = Ptr([tok EXCEPT !.LastUsedMs = now])]]
    /\ UNCHANGED <<connVars, sysVars, invVars, revoked, storeVars, nextReq, nextTok, now, faults>>

\* VerifyDeviceToken: the write of lastUsed and the ok result
VerifyDeviceTokenSet(t) ==
    /\ svc[t].pc = "vt_set"
    /\ SetDeviceTokenDropErr(svc[t])
    /\ svc' = [svc EXCEPT ![t] = [svc[t] EXCEPT !.pc = "ret", !.status = "ok"]]
    /\ UNCHANGED <<connVars, sysVars, invVars, revoked, memPending, diskPending, nextReq, nextTok, now>>

\* RevokeDeviceToken: the read of the token to revoke
RevokeDeviceToken(t) ==
    /\ svc[t].pc = "rv_get"
    /\ LET f == svc[t]
           device == GetPairedDevice(f.DeviceID)
           tok == device[1].Tokens[f.Role]
       IN  svc' = [svc EXCEPT ![t] =
                IF device = Nil \/ f.Role \notin DOMAIN device[1].Tokens
                THEN [f EXCEPT !.pc = "ret", !.outTok = Nil]
                ELSE [f EXCEPT !.pc = "rv_set", !.tok = Ptr([tok EXCEPT !.RevokedAtMs = now])]]
    /\ UNCHANGED <<connVars, sysVars, invVars, revoked, storeVars, nextReq, nextTok, now, faults>>

\* RevokeDeviceToken: the write of the revoked token and the return of the record
RevokeDeviceTokenSet(t) ==
    /\ svc[t].pc = "rv_set"
    /\ SetDeviceTokenDropErr(svc[t])
    /\ svc' = [svc EXCEPT ![t] = [svc[t] EXCEPT !.pc = "ret", !.outTok = svc[t].tok]]
    /\ revoked' = revoked \cup {<<svc[t].DeviceID, svc[t].Role, svc[t].tok[1].Token>>}
    /\ UNCHANGED <<connVars, sysVars, invVars, memPending, diskPending, nextReq, nextTok, now>>

\* ------------------------------------------------------------------------
\* The Store called directly (pairing/store.go): each method runs under the
\* store's mutex from its first line to its return
\* ------------------------------------------------------------------------
\* requests, devices and patches a caller of the Store passes
MaxStoreReqs == 2
StoreReqs ==
    [RequestID : 1..MaxStoreReqs, DeviceID : {"dA"}, PublicKey : {"kA"}, Role : {"node"},
     Scopes : {<<>>}, Silent : {FALSE}, IsRepair : {FALSE}, Timestamp : {1}]

StoreDevices ==
    [DeviceID : {"dA"}, PublicKey : {"kA"}, Role : {"node"}, Scopes : {<<>>},
     Tokens : {EmptyMap}, CreatedAtMs : {1}, ApprovedAtMs : {1}]

\* DeviceMetadataPatch: a nil field leaves the device's field alone
Patches == [Role : {Nil, Ptr("operator")}, Scopes : {Nil, Ptr(<<"cam">>)}]

StoreOps == {"AddPending", "RemovePending", "SetPaired", "UpdateDeviceMetadata",
             "SetDeviceToken", "PruneExpiredPending"}

\* what a Store method hands back to its caller
StoreReturn(op, err) == [NoFrame EXCEPT !.pc = "ret", !.op = op, !.err = err]

\* Store.AddPending
AddPending(t, req) ==
    /\ memPending' = MapPut(memPending, req.RequestID, req)
    /\ \E ok \in SaveOutcomes(faults) :
         /\ diskPending' = IF ok THEN memPending' ELSE diskPending
         /\ faults' = IF ok THEN faults ELSE faults + 1
         /\ svc' = [svc EXCEPT ![t] = StoreReturn("AddPending", ~ok)]
    /\ UNCHANGED <<connVars, sysVars, invVars, revoked, memPaired, diskPaired, nextReq, nextTok, now>>

\* Store.RemovePending: returns the removed request or nil, the error of
\* savePending is not looked at
RemovePending(t, requestID) ==
    /\ LET removed == GetPendingRequest(requestID)
       IN  IF removed = Nil
           THEN /\ svc' = [svc EXCEPT ![t] = StoreReturn("RemovePending", FALSE)]
                /\ UNCHANGED <<memPending, diskPending, faults>>
           ELSE /\ memPending' = MapDel(memPending, requestID)
                /\ \E ok \in SaveOutcomes(faults) :
                     /\ diskPending' = IF ok THEN memPending' ELSE diskPending
                     /\ faults' = IF ok THEN faults ELSE faults + 1
                /\ svc' = [svc EXCEPT ![t] =
                        [StoreReturn("RemovePending", FALSE) EXCEPT !.removed = removed]]
    /\ UNCHANGED <<connVars, sysVars, invVars, revoked, memPaired, diskPaired, nextReq, nextTok, now>>

\* Store.SetPaired
SetPaired(t, device) ==
    /\ memPaired' = MapPut(memPaired, device.DeviceID, device)
    /\ \E ok \in SaveOutcomes(faults) :
         /\ diskPaired' = IF ok THEN memPaired' ELSE diskPaired
         /\ faults' = IF ok THEN faults ELSE faults + 1
         /\ svc' = [svc EXCEPT ![t] = StoreReturn("SetPaired", ~ok)]
    /\ UNCHANGED <<connVars, sysVars, invVars, revoked, memPending, diskPending, nextReq, nextTok, now>>

\* Store.UpdateDeviceMetadata: an error when the device is absent, else the
\* non-nil fields of the patch are applied and the map is saved
UpdateDeviceMetadata(t, deviceID, patch) ==
    /\ IF deviceID \notin DOMAIN memPaired
       THEN /\ svc' = [svc EXCEPT ![t] = StoreReturn("UpdateDeviceMetadata", TRUE)]
            /\ UNCHANGED <<memPaired, diskPaired, faults>>
       ELSE LET dev == memPaired[deviceID]
                upd == [dev EXCEPT
                          !.Role = IF patch.Role # Nil THEN patch.Role[1] ELSE @,
                          !.Scopes = IF patch.Scopes # Nil THEN patch.Scopes[1] ELSE @]
            IN  /\ memPaired' = MapPut(memPaired, deviceID, upd)
                /\ \E ok \in SaveOutcomes(faults) :
                     /\ diskPaired' = IF ok THEN memPaired' ELSE diskPaired
                     /\ faults' = IF ok THEN faults ELSE faults + 1
                     /\ svc' = [svc EXCEPT ![t] = StoreReturn("UpdateDeviceMetadata", ~ok)]
    /\ UNCHANGED <<connVars, sysVars, invVars, revoked, memPending, diskPending, nextReq, nextTok, now>>

\* Store.SetDeviceToken
SetDeviceToken(t, deviceID, role, token) ==
    /\ IF deviceID \notin DOMAIN memPaired
       THEN /\ svc' = [svc EXCEPT ![t] = StoreReturn("SetDeviceToken", TRUE)]
            /\ UNCHANGED <<memPaired, diskPaired, faults>>
       ELSE /\ memPaired' = WithDeviceToken(memPaired, deviceID, role, token)
            /\ \E ok \in SaveOutcomes(faults) :
                 /\ diskPaired' = IF ok THEN memPaired' ELSE diskPaired
                 /\ faults' = IF ok THEN faults ELSE faults + 1
                 /\ svc' = [svc EXCEPT ![t] = StoreReturn("SetDeviceToken", ~ok)]
    /\ UNCHANGED <<connVars, sysVars, invVars, revoked, memPending, diskPending, nextReq, nextTok, now>>

\* Store.PruneExpiredPending as it would be if a request whose age equals the
\* TTL were expired
PruneExpiredPendingAtBoundary(t, nowMs) ==
    /\ LET old == {id \in DOMAIN memPending : nowMs - memPending[id].Timestamp >= PendingTTLMs}
       IN  /\ memPending' = [id \in (DOMAIN memPending) \ old |-> memPending[id]]
           /\ IF old # {}
              THEN \E ok \in SaveOutcomes(faults) :
                     /\ diskPending' = IF ok THEN memPending' ELSE diskPending
                     /\ faults' = IF ok THEN faults ELSE faults + 1
              ELSE UNCHANGED <<diskPending, faults>>
           /\ svc' = [svc EXCEPT ![t] =
                   [StoreReturn("PruneExpiredPending", FALSE) EXCEPT !.pruned = Cardinality(old)]]
    /\ UNCHANGED <<connVars, sysVars, invVars, revoked, memPaired, diskPaired, nextReq, nextTok, now>>

\* Store.PruneExpiredPending: returns the number of entries removed, the
\* error of savePending is not looked at
PruneExpiredPending(t, nowMs) ==
    /\ LET old == {id \in DOMAIN memPending : Expired(memPending[id], nowMs)}
       IN  /\ memPending' = [id \in (DOMAIN memPending) \ old |-> memPending[id]]
           /\ IF old # {}
              THEN \E ok \in SaveOutcomes(faults) :
                     /\ diskPending' = IF ok THEN memPending' ELSE diskPending
                     /\ faults' = IF ok THEN faults ELSE faults + 1
              ELSE UNCHANGED <<diskPending, faults>>
           /\ svc' = [svc EXCEPT ![t] =
                   [StoreReturn("PruneExpiredPending", FALSE) EXCEPT !.pruned = Cardinality(old)]]
    /\ UNCHANGED <<connVars, sysVars, invVars, revoked, memPaired, diskPaired, nextReq, nextTok, now>>

\* ------------------------------------------------------------------------
\* saveJSON step by step, and the process dying between the steps
\* ------------------------------------------------------------------------
FileNames == {"pending.json", "paired.json"}

\* the content of a target file and of the map it is saved from
Target(f) == IF f = "pending.json" THEN diskPending ELSE diskPaired
Mem(f) == IF f = "pending.json" THEN memPending ELSE memPaired

\* The state directory of a fresh store: no .tmp file (tmp[f] is Nil, else the
\* content of f.tmp: whole when all bytes are written), no target file whose
\* bytes are cut short (torn), and the count of NewStore calls.
InitFs == [tmp |-> [f \in FileNames |-> Nil], torn |-> {}, boots |-> 0]

\* restarts of the process in one run
MaxCrashes == 2

SavePcs == {"sj_create", "sj_write", "sj_rename"}

\* Store.mu is held by the method that is inside saveJSON
StoreLocked == \E u \in Threads : svc[u].pc \in SavePcs

\* the entry of saveJSON: the bytes are marshalled from the map in memory;
\* before is the content of the target at this moment
SaveJSONEnter(op, f, data) ==
    [NoFrame EXCEPT !.pc = "sj_create", !.op = op, !.file = f, !.data = data,
                    !.before = Target(f)]

\* Store.AddPending up to the call of saveJSON
AddPendingSave(t, req) ==
    /\ svc[t].pc \in {"idle", "ret"}
    /\ ~StoreLocked
    /\ memPending' = MapPut(memPending, req.RequestID, req)
    /\ svc' = [svc EXCEPT ![t] = SaveJSONEnter("AddPending", "pending.json", memPending')]
    /\ UNCHANGED <<connVars, sysVars, invVars, revoked, memPaired, diskPending, diskPaired,
                   nextReq, nextTok, now, faults>>

\* Store.SetPaired up to the call of saveJSON
SetPairedSave(t, device) ==
    /\ svc[t].pc \in {"idle", "ret"}
    /\ ~StoreLocked
    /\ memPaired' = MapPut(memPaired, device.DeviceID, device)
    /\ svc' = [svc EXCEPT ![t] = SaveJSONEnter("SetPaired", "paired.json", memPaired')]
    /\ UNCHANGED <<connVars, sysVars, invVars, revoked, memPending, diskPending, diskPaired,
                   nextReq, nextTok, now, faults>>

\* os.WriteFile(tmp, ...): the file is created or cut to length zero
SaveJSONCreate(t) ==
    /\ svc[t].pc = "sj_create"
    /\ \E ok \in SaveOutcomes(faults) :
         /\ faults' = IF ok THEN faults ELSE faults + 1
         /\ fs' = IF ok THEN [fs EXCEPT !.tmp[svc[t].file] = Ptr([whole |-> FALSE, data |-> EmptyMap])]
                  ELSE fs
         /\ svc' = [svc EXCEPT ![t].pc = IF ok THEN "sj_write" ELSE "ret", ![t].err = ~ok]
    /\ UNCHANGED <<connVars, srv, invVars, revoked, storeVars, nextReq, nextTok, now>>

\* os.WriteFile as it would be if saveJSON went on to the rename after a
\* write that failed
SaveJSONWriteIgnoreErr(t) ==
    /\ svc[t].pc = "sj_write"
    /\ \E ok \in SaveOutcomes(faults) :
         /\ faults' = IF ok THEN faults ELSE faults + 1
         /\ fs' = IF ok THEN [fs EXCEPT !.tmp[svc[t].file] = Ptr([whole |-> TRUE, data |-> svc[t].data])]
                  ELSE fs
         /\ svc' = [svc EXCEPT ![t].pc = "sj_rename"]
    /\ UNCHANGED <<connVars, srv, invVars, revoked, storeVars, nextReq, nextTok, now>>

\* os.WriteFile(tmp, ...): the bytes are written and the file is closed; a
\* failed write leaves the .tmp file cut short and saveJSON returns the error
SaveJSONWrite(t) ==
    /\ svc[t].pc = "sj_write"
    /\ \E ok \in SaveOutcomes(faults) :
         /\ faults' = IF ok THEN faults ELSE faults + 1
         /\ fs' = IF ok THEN [fs EXCEPT !.tmp[svc[t].file] = Ptr([whole |-> TRUE, data |-> svc[t].data])]
                  ELSE fs
         /\ svc' = [svc EXCEPT ![t].pc = IF ok THEN "sj_rename" ELSE "ret", ![t].err = ~ok]
    /\ UNCHANGED <<connVars, srv, invVars, revoked, storeVars, nextReq, nextTok, now>>

\* os.Rename(tmp, target): the target becomes the .tmp file in one step; when
\* the rename fails the .tmp file is removed and the error returned
SaveJSONRename(t) ==
    /\ svc[t].pc = "sj_rename"
    /\ LET f == svc[t].file
           tmp == fs.tmp[f][1]
       IN  \E ok \in SaveOutcomes(faults) :
             /\ faults' = IF ok THEN faults ELSE faults + 1
             /\ fs' = [fs EXCEPT !.tmp[f] = Nil,
                                 !.torn = IF ~ok THEN @
                                          ELSE IF tmp.whole THEN @ \ {f} ELSE @ \cup {f}]
             /\ diskPending' = IF ok /\ f = "pending.json" THEN tmp.data ELSE diskPending
             /\ diskPaired' = IF ok /\ f = "paired.json" THEN tmp.data ELSE diskPaired
             /\ svc' = [svc EXCEPT ![t].pc = "ret", ![t].err = ~ok]
    /\ UNCHANGED <<connVars, srv, invVars, revoked, memPending, memPaired, nextReq, nextTok, now>>

\* The process dies at any point and is started again: every call in progress
\* is gone with the memory, the files stay, and NewStore loads the two target
\* files (a target that does not parse makes NewStore fail: no state is loaded).
Crash ==
    /\ fs.boots < MaxCrashes
    /\ fs' = [fs EXCEPT !.boots = @ + 1]
    /\ svc' = [t \in Threads |-> [NoFrame EXCEPT !.op = "NewStore"]]
    /\ memPending' = IF "pending.json" \in fs.torn THEN EmptyMap ELSE diskPending
    /\ memPaired' = IF "paired.json" \in fs.torn THEN EmptyMap ELSE diskPaired
    /\ UNCHANGED <<connVars, srv, invVars, revoked, diskPending, diskPaired, nextReq, nextTok, now, faults>>

\* ------------------------------------------------------------------------
\* Callers of the pairing service other than the handshake
\* ------------------------------------------------------------------------
ApiOps == {"Approve", "Reject", "Verify", "Revoke", "Ensure"}

\* an operator approves a request id it has seen (router.go handleApprove)
StartApprove(t, r) ==
    /\ svc[t].pc = "idle"
    /\ svc' = [svc EXCEPT ![t] = [NoFrame EXCEPT !.pc = "ap_remove", !.op = "Approve",
                                                 !.RequestID = r]]
    /\ UNCHANGED <<connVars, sysVars, invVars, revoked, storeVars, nextReq, nextTok, now, faults>>

\* an operator rejects a request id (router.go handleReject)
StartReject(t, r) ==
    /\ svc[t].pc = "idle"
    /\ svc' = [svc EXCEPT ![t] = [NoFrame EXCEPT !.pc = "rj_remove", !.op = "Reject",
                                                 !.RequestID = r]]
    /\ UNCHANGED <<connVars, sysVars, invVars, revoked, storeVars, nextReq, nextTok, now, faults>>

StartVerify(t, deviceID, role, token, scopes) ==
    /\ svc[t].pc = "idle"
    /\ svc' = [svc EXCEPT ![t] =
            [NoFrame EXCEPT !.pc = "vt_get", !.op = "Verify", !.DeviceID = deviceID,
                            !.Role = role, !.Token = token, !.Scopes = scopes,
                            !.afterRevoke = (<<deviceID, role, token>> \in revoked)]]
    /\ UNCHANGED <<connVars, sysVars, invVars, revoked, storeVars, nextReq, nextTok, now, faults>>

StartRevoke(t, deviceID, role) ==
    /\ svc[t].pc = "idle"
    /\ svc' = [svc EXCEPT ![t] =
            [NoFrame EXCEPT !.pc = "rv_get", !.op = "Revoke", !.DeviceID = deviceID,
                            !.Role = role]]
    /\ UNCHANGED <<connVars, sysVars, invVars, revoked, storeVars, nextReq, nextTok, now, faults>>

StartEnsure(t, deviceID, role, scopes) ==
    /\ svc[t].pc = "idle"
    /\ nextTok < MaxTokens
    /\ svc' = [svc EXCEPT ![t] =
            [NoFrame EXCEPT !.pc = "en_get", !.op = "Ensure", !.DeviceID = deviceID,
                            !.Role = role, !.Scopes = scopes]]
    /\ UNCHANGED <<connVars, sysVars, invVars, revoked, storeVars, nextReq, nextTok, now, faults>>

\* the call returns to the operator, who is free for the next one
ApiReturn(t) ==
    /\ svc[t].pc = "ret"
    /\ svc[t].op \in ApiOps
    /\ svc' = [svc EXCEPT ![t] = NoFrame]
    /\ UNCHANGED <<connVars, sysVars, invVars, revoked, storeVars, nextReq, nextTok, now, faults>>

\* ------------------------------------------------------------------------
\* Session (gateway/conn.go) and its handler (gateway/gateway.go)
\* ------------------------------------------------------------------------
\* Server.handleWS up to the first read of Conn.Run: NewConn, WithPairing when
\* a pairing service is configured, and Conn.sendChallenge, whose write fails
\* when the peer is already gone
Accept(c, local, written) ==
    /\ conn[c].pc = "accept"
    /\ \A d \in Conns : d < c => conn[d].pc # "accept"
    /\ local => cfg.pairing
    /\ nextNonce' = nextNonce + 1
    /\ conn' = [conn EXCEPT ![c].State = "connecting", ![c].isLocal = local,
                            ![c].tracked = TRUE,
                            ![c].challengeNonce = "N" \o ToString(nextNonce + 1),
                            ![c].pc = IF written THEN "read1" ELSE "shutdown"]
    /\ UNCHANGED <<cfg, sysVars, regVars, gwConns, invVars, pairVars>>

\* A session whose Run has returned: Server.handleWS removes the Conn from the
\* server's set and nothing refers to its fields any more. The challenge it
\* issued stays known to the peers.
Returned(c) ==
    [InitConn EXCEPT !.pc = "done", !.State = "closed", !.wsClosed = TRUE,
                     !.challengeNonce = conn[c].challengeNonce]

\* Conn.sendError that is not followed by the error return of processConnect
ReplyErrorContinue(c, code, requestID) ==
    [conn[c] EXCEPT !.reply = code, !.replyRequestID = requestID, !.pc = "reply_ok"]

\* Conn.sendError followed by the error return of processConnect; reply is
\* the response the session writes, whose write error sendError drops
ReplyError(c, code, requestID) ==
    [conn[c] EXCEPT !.reply = code, !.replyRequestID = requestID, !.pc = "shutdown"]

\* Conn.Run step 2, the read of the first frame failing: the peer closed
ReadConnectError(c) ==
    /\ conn[c].pc = "read1"
    /\ conn' = [conn EXCEPT ![c].pc = "shutdown"]
    /\ UNCHANGED <<cfg, sysVars, regVars, gwConns, nextNonce, invVars, pairVars>>

\* processConnect as it would be if verifyDevice recorded the pairing request
\* of the device before it verified the payload
ReadConnectPairingFirst(c) ==
    /\ conn[c].pc = "read1"
    /\ \E f \in FirstFrames(c) :
            LET code == ConnectCheck(f)
                dcode == VerifyDeviceCheck(c, f)
            IN  IF code = "DROP"
                THEN /\ conn' = [conn EXCEPT ![c].pc = "shutdown"]
                     /\ UNCHANGED <<svc, memPending>>
                ELSE IF code # ""
                THEN /\ conn' = [conn EXCEPT ![c] = ReplyError(c, code, 0)]
                     /\ UNCHANGED <<svc, memPending>>
                ELSE IF ~(cfg.pairing /\ f.hasDevice)
                THEN /\ conn' = [conn EXCEPT ![c].params = f, ![c].pc = "reply_ok"]
                     /\ UNCHANGED <<svc, memPending>>
                ELSE IF dcode # ""
                THEN /\ conn' = [conn EXCEPT ![c] = ReplyError(c, dcode, 0)]
                     /\ memPending' = MapPut(memPending, nextReq + 1,
                            [RequestID |-> nextReq + 1,
                             DeviceID |-> DeriveDeviceID(f.Device.PublicKey),
                             PublicKey |-> f.Device.PublicKey,
                             Role |-> ResolveRole(f.Role), Scopes |-> f.Caps,
                             Silent |-> conn[c].isLocal, IsRepair |-> FALSE,
                             Timestamp |-> now])
                     /\ UNCHANGED svc
                ELSE /\ conn' = [conn EXCEPT ![c].params = f, ![c].pc = "vd_cps",
                                             ![c].DeviceID = DeriveDeviceID(f.Device.PublicKey)]
                     /\ svc' = [svc EXCEPT ![c] =
                            [NoFrame EXCEPT !.pc = "cps_reload", !.op = "CheckPairingStatus",
                                !.DeviceID = DeriveDeviceID(f.Device.PublicKey),
                                !.PublicKey = f.Device.PublicKey,
                                !.Role = ResolveRole(f.Role), !.Scopes = f.Caps,
                                !.IsLocal = conn[c].isLocal]]
                     /\ UNCHANGED memPending
    /\ UNCHANGED <<cfg, sysVars, regVars, gwConns, nextNonce, invVars, revoked, memPaired,
                   diskPending, diskPaired, nextReq, nextTok, now, faults>>

\* Conn.Run step 2: the read of the first frame and processConnect up to the
\* pairing check (verifyDevice steps 1-4)
ReadConnect(c) ==
    /\ conn[c].pc = "read1"
    /\ \E f \in FirstFrames(c) :
            LET code == ConnectCheck(f)
                dcode == VerifyDeviceCheck(c, f)
            IN  IF code = "DROP"
                THEN /\ conn' = [conn EXCEPT ![c].pc = "shutdown"]
                     /\ UNCHANGED svc
                ELSE IF code # ""
                THEN /\ conn' = [conn EXCEPT ![c] = ReplyError(c, code, 0)]
                     /\ UNCHANGED svc
                ELSE IF ~(cfg.pairing /\ f.hasDevice)
                THEN /\ conn' = [conn EXCEPT ![c].params = f, ![c].pc = "reply_ok"]
                     /\ UNCHANGED svc
                ELSE IF dcode # ""
                THEN /\ conn' = [conn EXCEPT ![c] = ReplyError(c, dcode, 0)]
                     /\ UNCHANGED svc
                ELSE /\ conn' = [conn EXCEPT ![c].params = f, ![c].pc = "vd_cps",
                                             ![c].DeviceID = DeriveDeviceID(f.Device.PublicKey)]
                     /\ svc' = [svc EXCEPT ![c] =
                            [NoFrame EXCEPT !.pc = "cps_reload", !.op = "CheckPairingStatus",
                                !.DeviceID = DeriveDeviceID(f.Device.PublicKey),
                                !.PublicKey = f.Device.PublicKey,
                                !.Role = ResolveRole(f.Role), !.Scopes = f.Caps,
                                !.IsLocal = conn[c].isLocal]]
    /\ UNCHANGED <<cfg, sysVars, regVars, gwConns, nextNonce, invVars, revoked, storeVars,
                   nextReq, nextTok, now, faults>>

\* verifyDevice step 5: the switch on the status CheckPairingStatus returned;
\* action is the status while the paired branch waits for EnsureDeviceToken
VerifyDeviceStatus(c) ==
    /\ conn[c].pc = "vd_cps"
    /\ svc[c].pc = "ret"
    /\ LET f == svc[c]
       IN  IF f.status \in {"paired", "auto-approved"}
           THEN /\ conn' = [conn EXCEPT ![c].pc = "vd_ensure", ![c].action = f.status]
                /\ svc' = [svc EXCEPT ![c] =
                        [NoFrame EXCEPT !.pc = "en_get", !.op = "ConnEnsure",
                            !.DeviceID = f.DeviceID, !.Role = f.Role, !.Scopes = f.Scopes]]
           ELSE IF f.status = "pairing-required"
           THEN /\ conn' = [conn EXCEPT ![c] = ReplyError(c, "NOT_PAIRED", f.outRequestID)]
                /\ svc' = [svc EXCEPT ![c] = NoFrame]
           ELSE /\ conn' = [conn EXCEPT ![c] = ReplyError(c, "PAIRING_ERROR", 0)]
                /\ svc' = [svc EXCEPT ![c] = NoFrame]
    /\ UNCHANGED <<cfg, sysVars, regVars, gwConns, nextNonce, invVars, revoked, storeVars,
                   nextReq, nextTok, now, faults>>

\* verifyDevice: the token EnsureDeviceToken returned ("" when it returned nil)
VerifyDeviceEnsured(c) ==
    /\ conn[c].pc = "vd_ensure"
    /\ svc[c].pc = "ret"
    /\ conn' = [conn EXCEPT ![c].pc = "reply_ok", ![c].action = "",
                            ![c].DeviceToken = IF svc[c].outTok = Nil THEN 0
                                               ELSE svc[c].outTok[1].Token]
    /\ svc' = [svc EXCEPT ![c] = NoFrame]
    /\ UNCHANGED <<cfg, sysVars, regVars, gwConns, nextNonce, invVars, revoked, storeVars,
                   nextReq, nextTok, now, faults>>

\* ------------------------------------------------------------------------
\* Server (gateway/server.go) and Gateway.Shutdown: the end of the process
\* ------------------------------------------------------------------------
\* Server.conns: the sessions handleWS has appended and not yet removed
ServerConns == {c \in Conns : conn[c].tracked}

\* Server.handleWS: the upgrade of a connection the listener accepted and
\* NewConn; the Conn is not yet in Server.conns
Upgrade(c) ==
    /\ conn[c].pc = "listen"
    /\ srv.listening
    /\ conn' = [conn EXCEPT ![c].pc = "accept"]
    /\ UNCHANGED <<cfg, sysVars, regVars, gwConns, nextNonce, invVars, pairVars>>

\* the top-level context is cancelled (SIGINT or SIGTERM, cmd/goclaw/server.go)
CtxCancel ==
    /\ ~srv.ctxDone
    /\ srv' = [srv EXCEPT !.ctxDone = TRUE]
    /\ UNCHANGED <<connVars, fs, invVars, pairVars>>

\* the goroutine of ListenAndServe after <-ctx.Done(): closeAllConns copies
\* Server.conns under the lock
CloserSnapshot ==
    /\ srv.ctxDone
    /\ srv.closer = "wait"
    /\ srv' = [srv EXCEPT !.closer = "closing", !.toClose = ServerConns]
    /\ UNCHANGED <<connVars, fs, invVars, pairVars>>

\* closeAllConns: c.ws.Close() for one session of the copy
CloserClose(c) ==
    /\ srv.closer = "closing"
    /\ c \in srv.toClose
    /\ srv' = [srv EXCEPT !.toClose = @ \ {c}]
    /\ conn' = [conn EXCEPT ![c].wsClosed = TRUE]
    /\ UNCHANGED <<cfg, fs, regVars, gwConns, nextNonce, invVars, pairVars>>

\* httpSrv.Close(): the listener is closed; hijacked connections are not
\* touched
CloserHttpClose ==
    /\ srv.closer = "closing"
    /\ srv.toClose = {}
    /\ srv' = [srv EXCEPT !.closer = "done", !.listening = FALSE]
    /\ UNCHANGED <<connVars, fs, invVars, pairVars>>

\* Gateway.Shutdown, called once the context is done: broadcast copies
\* Gateway.conns under the lock
ShutdownBroadcast ==
    /\ srv.ctxDone
    /\ srv.shut = "wait"
    /\ srv' = [srv EXCEPT !.shut = "broadcast", !.toSend = gwConns]
    /\ UNCHANGED <<connVars, fs, invVars, pairVars>>

\* broadcast: SendEvent("shutdown") to one session of the copy; the write
\* fails on a transport that is closed and the error is dropped
ShutdownSend(c) ==
    /\ srv.shut = "broadcast"
    /\ c \in srv.toSend
    /\ srv' = [srv EXCEPT !.toSend = @ \ {c}]
    /\ conn' = [conn EXCEPT ![c].shutdownSent = @ \/ ~conn[c].wsClosed]
    /\ UNCHANGED <<cfg, fs, regVars, gwConns, nextNonce, invVars, pairVars>>

\* Server.Shutdown: closeAllConns copies Server.conns
ShutdownSnapshot ==
    /\ srv.shut = "broadcast"
    /\ srv.toSend = {}
    /\ srv' = [srv EXCEPT !.shut = "closing", !.toClose2 = ServerConns]
    /\ UNCHANGED <<connVars, fs, invVars, pairVars>>

\* Server.Shutdown: c.ws.Close() for one session of the copy
ShutdownClose(c) ==
    /\ srv.shut = "closing"
    /\ c \in srv.toClose2
    /\ srv' = [srv EXCEPT !.toClose2 = @ \ {c}]
    /\ conn' = [conn EXCEPT ![c].wsClosed = TRUE]
    /\ UNCHANGED <<cfg, fs, regVars, gwConns, nextNonce, invVars, pairVars>>

\* Server.Shutdown: httpSrv.Shutdown closes the listener and does not wait
\* for hijacked connections
ShutdownHttp ==
    /\ srv.shut = "closing"
    /\ srv.toClose2 = {}
    /\ srv' = [srv EXCEPT !.shut = "done", !.listening = FALSE]
    /\ UNCHANGED <<connVars, fs, invVars, pairVars>>

\* Gateway.OnAuthenticated as it would be without the check of the role
NodeRoleAny(c) == c \in Conns

\* Gateway.OnAuthenticated acts on a session whose role resolves to node
NodeRole(c) == ResolveRole(conn[c].params.Role) = "node"

\* processConnect from the storing of ConnectParams on: the success response
\* is written, the state becomes authenticated and OnAuthenticated runs. A
\* failed write ends the session before it is authenticated.
ReplyOk(c, written) ==
    /\ conn[c].pc = "reply_ok"
    /\ IF ~written
       THEN /\ conn' = [conn EXCEPT ![c].hasParams = TRUE, ![c].pc = "shutdown"]
            /\ UNCHANGED <<regVars, gwConns>>
       ELSE /\ conn' = [conn EXCEPT ![c].hasParams = TRUE, ![c].reply = "OK",
                                    ![c].State = "authenticated", ![c].pc = "loop"]
            /\ IF NodeRole(c)
               THEN /\ byConnID' = RegisterByConnID(byConnID, byNodeID,
                                                    conn[c].params.ClientID, c)
                    /\ byNodeID' = RegisterByNodeID(byNodeID, conn[c].params.ClientID, c)
                    /\ gwConns' = gwConns \cup {c}
               ELSE UNCHANGED <<regVars, gwConns>>
    /\ UNCHANGED <<cfg, sysVars, nextNonce, invVars, pairVars>>

\* Conn.Run step 3: a failed read (the peer closed) ends the loop
ReadError(c) ==
    /\ conn[c].pc = "loop"
    /\ conn' = [conn EXCEPT ![c].pc = "shutdown"]
    /\ UNCHANGED <<cfg, sysVars, regVars, gwConns, nextNonce, invVars, pairVars>>

\* The invoke ids the peers have seen: those of the node.invoke.request
\* events that were written. An id is 128 random bits, which no peer guesses.
Emitted ==
    {inv[i].id : i \in {j \in Callers :
        \/ inv[j].pc = "wait"
        \/ inv[j].pc \in {"defer", "returned"} /\ inv[j].ret \notin {"send failed", "not connected"}}}

\* HandleResult as it would be if it took any pending entry for a result
HandleResultLookupAnyPending(c, result) ==
    /\ conn[c].pc = "loop"
    /\ result.ID \in Emitted
    /\ result.ID \in pending
    /\ \E id \in pending :
            conn' = [conn EXCEPT ![c].pc = "hr_send", ![c].hr = result, ![c].hrPi = id]
    /\ UNCHANGED <<cfg, sysVars, regVars, gwConns, nextNonce, invVars, pairVars>>

\* Conn.Run step 3, processRequest and Gateway.OnRequest for a
\* node.invoke.result request: the lookup of Invoker.HandleResult, which
\* returns false for an id that is not pending
HandleResultLookup(c, result) ==
    /\ conn[c].pc = "loop"
    /\ result.ID \in Emitted
    /\ result.ID \in pending
    /\ conn' = [conn EXCEPT ![c].pc = "hr_send", ![c].hr = result, ![c].hrPi = result.ID]
    /\ UNCHANGED <<cfg, sysVars, regVars, gwConns, nextNonce, invVars, pairVars>>

\* Invoker.HandleResult: pi.result <- result, which waits while the buffer is full
HandleResultSend(c) ==
    /\ conn[c].pc = "hr_send"
    /\ Len(pi[conn[c].hrPi].result) < ResultChanCap
    /\ pi' = [pi EXCEPT ![conn[c].hrPi].result = Append(@, conn[c].hr)]
    /\ conn' = [conn EXCEPT ![c].pc = "loop", ![c].hr = NoResult, ![c].hrPi = 0]
    /\ UNCHANGED <<cfg, sysVars, regVars, gwConns, nextNonce, pending, inv, nextId, pairVars>>

\* a node.invoke.result request as a peer can send it: with the id of a
\* request it was sent, or with an id nobody minted (0)
AnyResults == [ID : {0} \cup InvokeIds, OK : {TRUE}]

\* Invoker.HandleResult as it would be if a result with an unknown id were
\* given to an entry that is pending
HandleResultAdopt(c, result) ==
    /\ conn[c].pc = "loop"
    /\ result.ID \in pending => result.ID \in Emitted
    /\ \E id \in (IF result.ID \in pending \/ pending = {} THEN {result.ID} ELSE pending) :
            conn' = [conn EXCEPT ![c] =
                IF id \in pending
                THEN [conn[c] EXCEPT !.pc = "hr_send", !.hr = result, !.hrPi = id]
                ELSE [conn[c] EXCEPT !.pc = "hr_ret", !.hr = result, !.hrRet = FALSE]]
    /\ UNCHANGED <<cfg, sysVars, regVars, gwConns, nextNonce, invVars, pairVars>>

\* Invoker.HandleResult called by Gateway.OnRequest for a node.invoke.result
\* request: the lookup under the lock; an id that is not in the map ends the
\* call with false
HandleResult(c, result) ==
    /\ conn[c].pc = "loop"
    /\ result.ID \in pending => result.ID \in Emitted
    /\ conn' = [conn EXCEPT ![c] =
            IF result.ID \in pending
            THEN [conn[c] EXCEPT !.pc = "hr_send", !.hr = result, !.hrPi = result.ID]
            ELSE [conn[c] EXCEPT !.pc = "hr_ret", !.hr = result, !.hrRet = FALSE]]
    /\ UNCHANGED <<cfg, sysVars, regVars, gwConns, nextNonce, invVars, pairVars>>

\* Invoker.HandleResult as it would be if it returned true for a found entry
\* without sending the result
HandleResultDeliverNothing(c) ==
    /\ conn[c].pc = "hr_send"
    /\ conn' = [conn EXCEPT ![c].pc = "hr_ret", ![c].hrRet = TRUE]
    /\ UNCHANGED <<cfg, sysVars, regVars, gwConns, nextNonce, invVars, pairVars>>

\* Invoker.HandleResult: pi.result <- result, which waits while the buffer is
\* full, and the return of true
HandleResultDeliver(c) ==
    /\ conn[c].pc = "hr_send"
    /\ Len(pi[conn[c].hrPi].result) < ResultChanCap
    /\ pi' = [pi EXCEPT ![conn[c].hrPi].result = Append(@, conn[c].hr)]
    /\ conn' = [conn EXCEPT ![c].pc = "hr_ret", ![c].hrRet = TRUE]
    /\ UNCHANGED <<cfg, sysVars, regVars, gwConns, nextNonce, pending, inv, nextId, pairVars>>

\* Gateway.OnRequest drops what HandleResult returned and the read loop goes on
OnRequestReturn(c) ==
    /\ conn[c].pc = "hr_ret"
    /\ conn' = [conn EXCEPT ![c].pc = "loop", ![c].hr = NoResult, ![c].hrPi = 0,
                            ![c].hrRet = FALSE]
    /\ UNCHANGED <<cfg, sysVars, regVars, gwConns, nextNonce, invVars, pairVars>>

\* Conn.shutdown as it would be without the write of StateClosed
ShutdownKeepState(c) ==
    /\ conn[c].pc = "shutdown"
    /\ conn' = [conn EXCEPT ![c] =
            IF conn[c].State = "authenticated"
            THEN [conn[c] EXCEPT !.wsClosed = TRUE, !.pc = "od_unreg"]
            ELSE [Returned(c) EXCEPT !.State = conn[c].State]]
    /\ UNCHANGED <<cfg, sysVars, regVars, gwConns, nextNonce, invVars, pairVars>>

\* Conn.shutdown as it would be if it called OnDisconnected whatever the
\* state was
ShutdownAlwaysDisconnect(c) ==
    /\ conn[c].pc = "shutdown"
    /\ conn' = [conn EXCEPT ![c] =
            [conn[c] EXCEPT !.State = "closed", !.wsClosed = TRUE, !.pc = "od_unreg"]]
    /\ UNCHANGED <<cfg, sysVars, regVars, gwConns, nextNonce, invVars, pairVars>>

\* Conn.shutdown: the state becomes closed and the transport is closed
Shutdown(c) ==
    /\ conn[c].pc = "shutdown"
    /\ conn' = [conn EXCEPT ![c] =
            IF conn[c].State = "authenticated"
            THEN [conn[c] EXCEPT !.State = "closed", !.wsClosed = TRUE, !.pc = "od_unreg"]
            ELSE Returned(c)]
    /\ UNCHANGED <<cfg, sysVars, regVars, gwConns, nextNonce, invVars, pairVars>>

\* Gateway.OnDisconnected as it would be if it removed the registry entry of
\* the session's nodeID instead of looking up its ConnID
OnDisconnectedByNodeID(c) ==
    /\ conn[c].pc = "od_unreg"
    /\ gwConns' = gwConns \ {c}
    /\ LET nodeID == IF NodeRole(c) THEN conn[c].params.ClientID ELSE ""
       IN  IF nodeID = ""
           THEN /\ conn' = [conn EXCEPT ![c] = Returned(c)]
                /\ UNCHANGED regVars
           ELSE /\ byNodeID' = [byNodeID EXCEPT ![nodeID] = 0]
                /\ byConnID' = [byConnID EXCEPT ![c] = ""]
                /\ conn' = [conn EXCEPT ![c].pc = "cp_collect", ![c].unreg = nodeID]
    /\ UNCHANGED <<cfg, sysVars, nextNonce, invVars, pairVars>>

\* Gateway.OnDisconnected: delete(gw.conns, conn) and Registry.Unregister(conn.ConnID)
OnDisconnected(c) ==
    /\ conn[c].pc = "od_unreg"
    /\ gwConns' = gwConns \ {c}
    /\ LET nodeID == UnregisterFound(c)
       IN  IF nodeID = ""
           THEN /\ conn' = [conn EXCEPT ![c] = Returned(c)]
                /\ UNCHANGED regVars
           ELSE /\ byNodeID' = [byNodeID EXCEPT ![nodeID] = 0]
                /\ byConnID' = [byConnID EXCEPT ![c] = ""]
                /\ conn' = [conn EXCEPT ![c].pc = "cp_collect", ![c].unreg = nodeID]
    /\ UNCHANGED <<cfg, sysVars, nextNonce, invVars, pairVars>>

\* Invoker.CancelPendingForNode: the scan of the pending map under the lock
CancelPendingCollect(nodeID) == {id \in pending : pi[id].nodeID = nodeID}

CancelPendingForNode(c) ==
    /\ conn[c].pc = "cp_collect"
    /\ conn' = [conn EXCEPT ![c].pc = "cp_close",
                            ![c].toCancel = CancelPendingCollect(conn[c].unreg)]
    /\ UNCHANGED <<cfg, sysVars, regVars, gwConns, nextNonce, invVars, pairVars>>

\* Invoker.CancelPendingForNode: close(pi.cancel) for the collected entries,
\* one at a time, outside the lock; closing a closed channel panics and ends
\* the goroutine of the session.
CancelPendingClose(c) ==
    /\ conn[c].pc = "cp_close"
    /\ IF conn[c].toCancel = {}
       THEN /\ conn' = [conn EXCEPT ![c] = Returned(c)]
            /\ UNCHANGED pi
       ELSE \E id \in conn[c].toCancel :
            /\ pi' = [pi EXCEPT ![id].cancel = @ + 1]
            /\ conn' = [conn EXCEPT ![c].toCancel = @ \ {id},
                                    ![c].pc = IF pi[id].cancel > 0 THEN "panicked"
                                              ELSE "cp_close"]
    /\ UNCHANGED <<cfg, sysVars, regVars, gwConns, nextNonce, pending, inv, nextId, pairVars>>

\* ------------------------------------------------------------------------
\* Invoker (node/invoker.go)
\* ------------------------------------------------------------------------
\* Invoke: Registry.Get; an unknown node ends the call
InvokeGet(i, nodeID, timeoutMs) ==
    /\ inv[i].pc = "idle"
    /\ \A j \in Callers : j < i => inv[j].pc # "idle"
    /\ inv' = [inv EXCEPT ![i] =
            IF RegistryGet(nodeID) = 0
            THEN [inv[i] EXCEPT !.pc = "returned", !.NodeID = nodeID,
                                !.TimeoutMs = timeoutMs, !.ret = "not connected"]
            ELSE [inv[i] EXCEPT !.pc = "register", !.NodeID = nodeID,
                                !.TimeoutMs = timeoutMs, !.session = RegistryGet(nodeID)]]
    /\ UNCHANGED <<connVars, sysVars, pending, pi, nextId, pairVars>>

\* Invoke: the id is minted and the pendingInvoke registered under it
InvokeRegister(i) ==
    /\ inv[i].pc = "register"
    /\ nextId' = nextId + 1
    /\ pi' = [pi EXCEPT ![nextId + 1] = NewPendingInvoke(inv[i].NodeID)]
    /\ pending' = pending \cup {nextId + 1}
    /\ inv' = [inv EXCEPT ![i].pc = "send", ![i].id = nextId + 1]
    /\ UNCHANGED <<connVars, sysVars, pairVars>>

\* Invoke: session.Send of node.invoke.request; a closed transport fails it.
\* After the send the select starts, and time.After(timeout) with it.
InvokeSend(i) ==
    /\ inv[i].pc = "send"
    /\ inv' = [inv EXCEPT ![i] =
            IF conn[inv[i].session].wsClosed
            THEN [inv[i] EXCEPT !.pc = "defer", !.ret = "send failed"]
            ELSE [inv[i] EXCEPT !.pc = "wait", !.elapsed = 0]]
    /\ UNCHANGED <<connVars, sysVars, pending, pi, nextId, pairVars>>

\* Invoke: the select takes the result
InvokeResult(i) ==
    /\ inv[i].pc = "wait"
    /\ Len(pi[inv[i].id].result) > 0
    /\ inv' = [inv EXCEPT ![i].pc = "defer", ![i].ret = "result",
                          ![i].res = Head(pi[inv[i].id].result)]
    /\ pi' = [pi EXCEPT ![inv[i].id].result = Tail(@)]
    /\ UNCHANGED <<connVars, sysVars, pending, nextId, pairVars>>

\* Invoke: the select takes the closed cancel channel
InvokeCancelled(i) ==
    /\ inv[i].pc = "wait"
    /\ pi[inv[i].id].cancel > 0
    /\ inv' = [inv EXCEPT ![i].pc = "defer", ![i].ret = "node disconnected"]
    /\ UNCHANGED <<connVars, sysVars, pending, pi, nextId, pairVars>>

\* Time passes while the select waits, up to the deadline of time.After
Elapse(i) ==
    /\ inv[i].pc = "wait"
    /\ inv[i].elapsed < inv[i].TimeoutMs
    /\ inv' = [inv EXCEPT ![i].elapsed = inv[i].TimeoutMs]
    /\ UNCHANGED <<connVars, sysVars, pending, pi, nextId, pairVars>>

\* Invoke as it would be with a select that has no timeout case
InvokeTimeoutAbsent(i) ==
    /\ inv[i].pc = "wait"
    /\ inv[i].elapsed > inv[i].TimeoutMs
    /\ inv' = [inv EXCEPT ![i].pc = "defer", ![i].ret = "invoke timeout"]
    /\ UNCHANGED <<connVars, sysVars, pending, pi, nextId, pairVars>>

\* Invoke: the select takes time.After(timeout), whose timer has expired
InvokeTimeout(i) ==
    /\ inv[i].pc = "wait"
    /\ inv[i].elapsed >= inv[i].TimeoutMs
    /\ inv' = [inv EXCEPT ![i].pc = "defer", ![i].ret = "invoke timeout"]
    /\ UNCHANGED <<connVars, sysVars, pending, pi, nextId, pairVars>>

\* Invoke: the select takes ctx.Done()
InvokeContextDone(i) ==
    /\ inv[i].pc = "wait"
    /\ inv' = [inv EXCEPT ![i].pc = "defer", ![i].ret = "context canceled"]
    /\ UNCHANGED <<connVars, sysVars, pending, pi, nextId, pairVars>>

\* Invoke as it would be without the deferred delete
InvokeDeferKeep(i) ==
    /\ inv[i].pc = "defer"
    /\ inv' = [inv EXCEPT ![i].pc = "returned"]
    /\ UNCHANGED <<connVars, sysVars, pending, pi, nextId, pairVars>>

\* Invoke: the deferred delete(inv.pending, id), then the return
InvokeDefer(i) ==
    /\ inv[i].pc = "defer"
    /\ pending' = pending \ {inv[i].id}
    /\ inv' = [inv EXCEPT ![i].pc = "returned"]
    /\ UNCHANGED <<connVars, sysVars, pi, nextId, pairVars>>

\* ------------------------------------------------------------------------
\* Frame writes (gateway/conn.go): every write of a frame is a call of
\* Conn.writeMessage by one of the goroutines that write to the session
\* ------------------------------------------------------------------------
\* the goroutines that write: the session's own loop, the tick loop, the
\* caller of Gateway.Shutdown and the callers of Invoke
Broadcasts == {"tick", "shutdown"}
LoopWriter(c) == "loop" \o ToString(c)
InvokeWriter(i) == "invoke" \o ToString(i)
Writers == {LoopWriter(c) : c \in Conns} \cup Broadcasts \cup {InvokeWriter(i) : i \in Callers}

\* ticks of the tick loop in one run
MaxTicks == 1

\* a call of Conn.writeMessage: not started, before the Lock, inside
\* ws.WriteMessage, before the deferred Unlock, returned
NoCall == [stage |-> "idle", c |-> 0, frame |-> "", err |-> FALSE]
NewCall(c, frame) == [stage |-> "lock", c |-> c, frame |-> frame, err |-> FALSE]

\* Conn.writeMessage as it would be without its mutex
WriteMessageNoMutex(w) ==
    /\ srv.call[w].stage = "lock"
    /\ srv' = [srv EXCEPT !.call[w].stage = "write"]
    /\ UNCHANGED <<connVars, fs, invVars, pairVars>>

\* Conn.writeMessage: c.writeMu.Lock()
WriteMessageLock(w) ==
    /\ srv.call[w].stage = "lock"
    /\ srv.writeMu[srv.call[w].c] = ""
    /\ srv' = [srv EXCEPT !.call[w].stage = "write", !.writeMu[srv.call[w].c] = w]
    /\ UNCHANGED <<connVars, fs, invVars, pairVars>>

\* Conn.writeMessage: c.ws.WriteMessage returns; the frame is on the wire
\* unless the transport is closed
WriteMessageWrite(w) ==
    /\ srv.call[w].stage = "write"
    /\ LET c == srv.call[w].c
       IN  srv' = IF conn[c].wsClosed
                  THEN [srv EXCEPT !.call[w].stage = "unlock", !.call[w].err = TRUE]
                  ELSE [srv EXCEPT !.call[w].stage = "unlock",
                                   !.wire[c] = Append(@, srv.call[w].frame)]
    /\ UNCHANGED <<connVars, fs, invVars, pairVars>>

\* Conn.writeMessage: the deferred c.writeMu.Unlock() and the return
WriteMessageUnlock(w) ==
    /\ srv.call[w].stage = "unlock"
    /\ srv' = [srv EXCEPT !.call[w].stage = "done",
                          !.writeMu[srv.call[w].c] = IF @ = w THEN "" ELSE @]
    /\ UNCHANGED <<connVars, fs, invVars, pairVars>>

\* Conn.Run step 1: sendChallenge mints the nonce and writes the event
RunSendChallenge(c) ==
    /\ conn[c].pc = "accept"
    /\ \A d \in Conns : d < c => conn[d].pc # "accept"
    /\ nextNonce' = nextNonce + 1
    /\ conn' = [conn EXCEPT ![c].State = "connecting", ![c].tracked = TRUE,
                            ![c].challengeNonce = "N" \o ToString(nextNonce + 1),
                            ![c].pc = "challenge"]
    /\ srv' = [srv EXCEPT !.call[LoopWriter(c)] = NewCall(c, "connect.challenge")]
    /\ UNCHANGED <<cfg, fs, regVars, gwConns, invVars, pairVars>>

\* Conn.Run: a failed write of the challenge ends the session
RunChallengeSent(c) ==
    /\ conn[c].pc = "challenge"
    /\ srv.call[LoopWriter(c)].stage = "done"
    /\ conn' = [conn EXCEPT ![c].pc = IF srv.call[LoopWriter(c)].err THEN "shutdown"
                                      ELSE "read1"]
    /\ srv' = [srv EXCEPT !.call[LoopWriter(c)] = NoCall]
    /\ UNCHANGED <<cfg, fs, regVars, gwConns, nextNonce, invVars, pairVars>>

\* processConnect as it would be if OnAuthenticated ran before the success
\* response is written
ProcessConnectRegisterFirst(c, ok, role, nodeID) ==
    /\ conn[c].pc = "read1"
    /\ IF ok
       THEN /\ conn' = [conn EXCEPT ![c].params = [NoParams EXCEPT !.Role = role,
                                                                  !.ClientID = nodeID],
                                    ![c].hasParams = TRUE, ![c].pc = "connect_ok"]
            /\ srv' = [srv EXCEPT !.call[LoopWriter(c)] = NewCall(c, "res_ok")]
            /\ IF ResolveRole(role) = "node"
               THEN /\ byConnID' = RegisterByConnID(byConnID, byNodeID, nodeID, c)
                    /\ byNodeID' = RegisterByNodeID(byNodeID, nodeID, c)
                    /\ gwConns' = gwConns \cup {c}
               ELSE UNCHANGED <<regVars, gwConns>>
       ELSE /\ conn' = [conn EXCEPT ![c].pc = "connect_err"]
            /\ srv' = [srv EXCEPT !.call[LoopWriter(c)] = NewCall(c, "res_err")]
            /\ UNCHANGED <<regVars, gwConns>>
    /\ UNCHANGED <<cfg, fs, nextNonce, invVars, pairVars>>

\* processConnect on the first frame: a frame that fails a check is answered
\* by sendError; one that passes has its params stored and the success
\* response written
ProcessConnect(c, ok, role, nodeID) ==
    /\ conn[c].pc = "read1"
    /\ IF ok
       THEN /\ conn' = [conn EXCEPT ![c].params = [NoParams EXCEPT !.Role = role,
                                                                  !.ClientID = nodeID],
                                    ![c].hasParams = TRUE, ![c].pc = "connect_ok"]
            /\ srv' = [srv EXCEPT !.call[LoopWriter(c)] = NewCall(c, "res_ok")]
       ELSE /\ conn' = [conn EXCEPT ![c].pc = "connect_err"]
            /\ srv' = [srv EXCEPT !.call[LoopWriter(c)] = NewCall(c, "res_err")]
    /\ UNCHANGED <<cfg, fs, regVars, gwConns, nextNonce, invVars, pairVars>>

\* processConnect after the write of the success response: a failed write
\* ends the session, else the state becomes authenticated and
\* OnAuthenticated registers a session of role node
ConnectReplied(c) ==
    /\ conn[c].pc = "connect_ok"
    /\ srv.call[LoopWriter(c)].stage = "done"
    /\ srv' = [srv EXCEPT !.call[LoopWriter(c)] = NoCall]
    /\ IF srv.call[LoopWriter(c)].err
       THEN /\ conn' = [conn EXCEPT ![c].pc = "shutdown"]
            /\ UNCHANGED <<regVars, gwConns>>
       ELSE /\ conn' = [conn EXCEPT ![c].reply = "OK", ![c].State = "authenticated",
                                    ![c].pc = "loop"]
            /\ IF NodeRole(c)
               THEN /\ byConnID' = RegisterByConnID(byConnID, byNodeID,
                                                    conn[c].params.ClientID, c)
                    /\ byNodeID' = RegisterByNodeID(byNodeID, conn[c].params.ClientID, c)
                    /\ gwConns' = gwConns \cup {c}
               ELSE UNCHANGED <<regVars, gwConns>>
    /\ UNCHANGED <<cfg, fs, nextNonce, invVars, pairVars>>

\* processConnect after sendError, which drops the error of its write
ErrorReplied(c) ==
    /\ conn[c].pc = "connect_err"
    /\ srv.call[LoopWriter(c)].stage = "done"
    /\ srv' = [srv EXCEPT !.call[LoopWriter(c)] = NoCall]
    /\ conn' = [conn EXCEPT ![c].reply = "ERROR", ![c].pc = "shutdown"]
    /\ UNCHANGED <<cfg, fs, regVars, gwConns, nextNonce, invVars, pairVars>>

\* Gateway.broadcast: the copy of Gateway.conns under connsMu; the tick loop
\* calls it on every tick, Gateway.Shutdown once the context is done
BroadcastSnapshot(b) ==
    /\ srv.bcast[b].pc = "wait"
    /\ IF b = "tick" THEN srv.ticks < MaxTicks /\ ~srv.ctxDone ELSE srv.ctxDone
    /\ srv' = [srv EXCEPT !.bcast[b] = [pc |-> "send", toSend |-> gwConns],
                          !.ticks = IF b = "tick" THEN @ + 1 ELSE @]
    /\ UNCHANGED <<connVars, fs, invVars, pairVars>>

\* Gateway.broadcast: SendEvent to the next session of the copy
BroadcastSend(b, c) ==
    /\ srv.bcast[b].pc = "send"
    /\ srv.call[b].stage = "idle"
    /\ c \in srv.bcast[b].toSend
    /\ srv' = [srv EXCEPT !.bcast[b].toSend = @ \ {c}, !.call[b] = NewCall(c, b)]
    /\ UNCHANGED <<connVars, fs, invVars, pairVars>>

\* Gateway.broadcast: SendEvent has returned, its error is dropped; after the
\* last session the broadcast returns
BroadcastSent(b) ==
    /\ srv.bcast[b].pc = "send"
    /\ \/ /\ srv.call[b].stage = "done"
          /\ srv' = [srv EXCEPT !.call[b] = NoCall]
       \/ /\ srv.call[b].stage = "idle"
          /\ srv.bcast[b].toSend = {}
          /\ srv' = [srv EXCEPT !.bcast[b].pc = IF b = "tick" THEN "wait" ELSE "done"]
    /\ UNCHANGED <<connVars, fs, invVars, pairVars>>

\* Invoke: session.Send("node.invoke.request"), which is Conn.SendEvent of
\* the session the registry returned
InvokeSendEvent(i) ==
    /\ inv[i].pc = "send"
    /\ inv' = [inv EXCEPT ![i].pc = "sending"]
    /\ srv' = [srv EXCEPT !.call[InvokeWriter(i)] =
                    NewCall(inv[i].session, "node.invoke.request")]
    /\ UNCHANGED <<connVars, fs, pending, pi, nextId, pairVars>>

\* Invoke: a failed send ends the call, else the select starts
InvokeSent(i) ==
    /\ inv[i].pc = "sending"
    /\ srv.call[InvokeWriter(i)].stage = "done"
    /\ srv' = [srv EXCEPT !.call[InvokeWriter(i)] = NoCall]
    /\ inv' = [inv EXCEPT ![i] =
            IF srv.call[InvokeWriter(i)].err
            THEN [inv[i] EXCEPT !.pc = "defer", !.ret = "send failed"]
            ELSE [inv[i] EXCEPT !.pc = "wait", !.elapsed = 0]]
    /\ UNCHANGED <<connVars, fs, pending, pi, nextId, pairVars>>

\* ------------------------------------------------------------------------
\* Specifications
\* ------------------------------------------------------------------------
\* The Server before its context is cancelled: the listener is open, the
\* goroutine of ListenAndServe waits for the context and nobody has called
\* Gateway.Shutdown.
InitSrv ==
    [ctxDone |-> FALSE, listening |-> TRUE,
     closer |-> "wait", toClose |-> {},
     shut |-> "wait", toSend |-> {}, toClose2 |-> {},
     writeMu |-> [c \in Conns |-> ""], wire |-> [c \in Conns |-> <<>>],
     call |-> [w \in Writers |-> NoCall],
     bcast |-> [b \in Broadcasts |-> [pc |-> "wait", toSend |-> {}]], ticks |-> 0]

InitCommon ==
    /\ conn = [c \in Conns |-> InitConn]
    /\ byNodeID = [n \in NodeIds |-> 0]
    /\ byConnID = [c \in Conns |-> ""]
    /\ gwConns = {}
    /\ pending = {}
    /\ pi = [id \in InvokeIds |-> NewPendingInvoke("")]
    /\ inv = [i \in Callers |-> InitInvoke]
    /\ nextId = 0
    /\ nextNonce = 0
    /\ svc = [t \in Threads |-> NoFrame]
    /\ nextReq = 0
    /\ now = 1
    /\ revoked = {}
    /\ srv = InitSrv
    /\ fs = InitFs

EmptyStore ==
    /\ memPending = EmptyMap
    /\ memPaired = EmptyMap
    /\ diskPending = EmptyMap
    /\ diskPaired = EmptyMap
    /\ nextTok = 0

\* the steps of a session, from the accept to the end of its teardown
SessionStep(c) ==
    \/ \E local \in BOOLEAN, written \in BOOLEAN : Accept(c, local, written)
    \/ ReadConnectError(c)
    \/ ReadConnect(c)
    \/ \E written \in BOOLEAN : ReplyOk(c, written)
    \/ ReadError(c)
    \/ Shutdown(c)
    \/ OnDisconnected(c)
    \/ CancelPendingForNode(c)
    \/ CancelPendingClose(c)

\* the steps of the pairing check inside a handshake
PairingCheckStep(t) ==
    \/ StoreReload(t)
    \/ CheckPairingStatus(t)
    \/ RequestPairingGet(t)
    \/ RequestPairingList(t)
    \/ RequestPairingAdd(t)
    \/ ApproveRemove(t)
    \/ ApproveGet(t)
    \/ ApproveSetPaired(t)
    \/ ApproveSetToken(t)
    \/ ApproveRefetch(t)
    \/ EnsureDeviceToken(t)
    \/ EnsureDeviceTokenSet(t)

\* the steps of the goroutine that runs an Invoke call
InvokeRun(i) ==
    \/ InvokeRegister(i)
    \/ InvokeSend(i)
    \/ InvokeResult(i)
    \/ InvokeCancelled(i)
    \/ InvokeTimeout(i)
    \/ InvokeDefer(i)

InvokeStep(i) ==
    \/ \E n \in NodeIds, t \in Timeouts : InvokeGet(i, n, t)
    \/ InvokeRun(i)
    \/ Elapse(i)
    \/ InvokeContextDone(i)

\* Invoke calls running while sessions come, go and replace each other
MaxTeardownInvokes == 1
TeardownCallers == {i \in Callers : i <= MaxTeardownInvokes}

\* sessions serving several concurrent Invoke calls
MaxResultConns == 1
ResultConns == {c \in Conns : c <= MaxResultConns}

\* The gateway without a pairing service: sessions, registry and invoker.
InitInvoker ==
    /\ cfg = [pairing |-> FALSE, authMode |-> "none"]
    /\ InitCommon
    /\ EmptyStore
    /\ faults = 0

\* Sessions registering, disconnecting and replacing each other around the
\* Invoke calls.
NextInvoker ==
    \/ \E c \in Conns : SessionStep(c)
    \/ \E c \in Conns : \E r \in Results : HandleResultLookup(c, r)
    \/ \E c \in Conns : HandleResultSend(c)
    \/ \E i \in TeardownCallers : InvokeStep(i)

SpecInvoker == InitInvoker /\ [][NextInvoker]_vars

\* Concurrent Invoke calls whose results arrive in any order.
NextResults ==
    \/ \E c \in ResultConns : SessionStep(c)
    \/ \E c \in ResultConns : \E r \in Results : HandleResultLookup(c, r)
    \/ \E c \in ResultConns : HandleResultSend(c)
    \/ \E i \in Callers : InvokeStep(i)

SpecResults == InitInvoker /\ [][NextResults]_vars

\* The goroutine of an Invoke call keeps running and time keeps passing;
\* nothing is assumed of the sessions, the peers or the caller's context.
InvokeFairness ==
    \A i \in Callers : WF_vars(InvokeRun(i)) /\ WF_vars(Elapse(i))

SpecResultsFair == InitInvoker /\ [][NextResults]_vars /\ InvokeFairness

\* Results with known and unknown ids arriving at a session while Invoke
\* calls run; what HandleResult returns is kept until OnRequest returns.
NextHandle ==
    \/ \E c \in ResultConns : SessionStep(c)
    \/ \E c \in ResultConns : \E r \in AnyResults : HandleResult(c, r)
    \/ \E c \in ResultConns : HandleResultDeliver(c)
    \/ \E c \in ResultConns : OnRequestReturn(c)
    \/ \E i \in Callers : InvokeStep(i)

SpecHandle == InitInvoker /\ [][NextHandle]_vars

\* Several Invoke calls waiting for results that do not come while sessions
\* of the nodes come, go and replace each other: the teardown of each session
\* cancels what is pending, and what is not cancelled times out.
NextCancel ==
    \/ \E c \in Conns : Accept(c, FALSE, TRUE)
    \/ \E c \in Conns : /\ ReadConnect(c)
                         /\ conn'[c].pc = "reply_ok"
                         /\ conn'[c].params.Role = ""
    \/ \E c \in Conns : ReplyOk(c, TRUE)
    \/ \E c \in Conns : ReadError(c)
    \/ \E c \in Conns : Shutdown(c)
    \/ \E c \in Conns : OnDisconnected(c)
    \/ \E c \in Conns : CancelPendingForNode(c)
    \/ \E c \in Conns : CancelPendingClose(c)
    \/ \E i \in Callers : \E n \in NodeIds : InvokeGet(i, n, 5000)
    \/ \E i \in Callers : InvokeRegister(i)
    \/ \E i \in Callers : InvokeSend(i)
    \/ \E i \in Callers : InvokeCancelled(i)
    \/ \E i \in Callers : Elapse(i)
    \/ \E i \in Callers : InvokeTimeout(i)
    \/ \E i \in Callers : InvokeDefer(i)

SpecCancel == InitInvoker /\ [][NextCancel]_vars

\* The gateway with a pairing service attached: handshakes, and an operator
\* command (approve or reject) per element of Ops. Every save of the store
\* succeeds here: the persistence failures are those of SpecToken.
InitPairing ==
    /\ cfg = [pairing |-> TRUE, authMode |-> "token"]
    /\ InitCommon
    /\ EmptyStore
    /\ faults = MaxSaveFaults

NextPairing ==
    \/ \E c \in Conns : SessionStep(c)
    \/ \E c \in Conns : VerifyDeviceStatus(c)
    \/ \E c \in Conns : VerifyDeviceEnsured(c)
    \/ \E t \in Threads : PairingCheckStep(t)
    \/ \E t \in Ops : \E r \in 1..nextReq : StartApprove(t, r)
    \/ \E t \in Ops : \E r \in 1..nextReq : StartReject(t, r)
    \/ \E t \in Ops : Reject(t)

SpecPairing == InitPairing /\ [][NextPairing]_vars

\* A session that connects and is torn down while the tick loop, the caller
\* of Gateway.Shutdown and Invoke callers write to it.
NextWire ==
    \/ \E c \in ResultConns : RunSendChallenge(c)
    \/ \E c \in ResultConns : RunChallengeSent(c)
    \/ \E c \in ResultConns : ReadConnectError(c)
    \/ \E c \in ResultConns : \E ok \in BOOLEAN, role \in {"", "operator"} :
            ProcessConnect(c, ok, role, "n1")
    \/ \E c \in ResultConns : ConnectReplied(c)
    \/ \E c \in ResultConns : ErrorReplied(c)
    \/ \E c \in ResultConns : ReadError(c)
    \/ \E c \in ResultConns : Shutdown(c)
    \/ \E c \in ResultConns : OnDisconnected(c)
    \/ \E c \in ResultConns : CancelPendingForNode(c)
    \/ \E c \in ResultConns : CancelPendingClose(c)
    \/ \E w \in Writers : WriteMessageLock(w)
    \/ \E w \in Writers : WriteMessageWrite(w)
    \/ \E w \in Writers : WriteMessageUnlock(w)
    \/ CtxCancel
    \/ \E b \in Broadcasts : BroadcastSnapshot(b)
    \/ \E b \in Broadcasts : \E c \in ResultConns : BroadcastSend(b, c)
    \/ \E b \in Broadcasts : BroadcastSent(b)
    \/ \E i \in Callers : InvokeGet(i, "n1", 5000)
    \/ \E i \in Callers : InvokeRegister(i)
    \/ \E i \in Callers : InvokeSendEvent(i)
    \/ \E i \in Callers : InvokeSent(i)
    \/ \E i \in Callers : InvokeCancelled(i)
    \/ \E i \in Callers : InvokeContextDone(i)
    \/ \E i \in Callers : InvokeDefer(i)

SpecWire == InitInvoker /\ [][NextWire]_vars

\* the calls that are inside ws.WriteMessage of the transport of session c
InWrite(c) == {w \in Writers : srv.call[w].stage = "write" /\ srv.call[w].c = c}

\* C36: at most one frame write is in progress on the transport of a session
\* at any time, whoever the writers are.
C36_OneWriteAtATime ==
    \A c \in Conns : Cardinality(InWrite(c)) <= 1

\* a write is in progress on a session while another goroutine waits for
\* the mutex to write to the same session
C36_Witness ==
    \E c \in Conns : \E w1, w2 \in Writers :
        /\ w1 \in InWrite(c)
        /\ srv.call[w2].stage = "lock" /\ srv.call[w2].c = c
        /\ w1 \in Broadcasts
        /\ w2 \notin Broadcasts

\* the events the gateway sends to a session on its own initiative
PushedEvents == {"tick", "shutdown", "node.invoke.request"}

\* C40: on every connection the connect.challenge event is the first frame
\* written, and a tick, shutdown or node.invoke.request event is written to
\* a session only after the success response to its connect request.
C40_ChallengeFirst ==
    \A c \in Conns :
        LET wire == srv.wire[c]
        IN  /\ wire # <<>> => wire[1] = "connect.challenge"
            /\ \A k \in 1..Len(wire) :
                    wire[k] \in PushedEvents => \E j \in 1..(k - 1) : wire[j] = "res_ok"

\* a session was sent its challenge, the success response, and then events
\* by the tick loop and by an Invoke caller
C40_Witness ==
    \E c \in Conns :
        /\ Len(srv.wire[c]) >= 4
        /\ \E j, k \in 3..Len(srv.wire[c]) :
                srv.wire[c][j] = "tick" /\ srv.wire[c][k] = "node.invoke.request"

\* Operators that approve and reject the same pending requests at the same
\* time, each with one call, on a store that was opened over the requests.
InitApprove ==
    /\ cfg = [pairing |-> TRUE, authMode |-> "none"]
    /\ InitCommon
    /\ memPending = [r \in 1..MaxStoreReqs |->
            [RequestID |-> r, DeviceID |-> "dA", PublicKey |-> "kA", Role |-> "node",
             Scopes |-> <<>>, Silent |-> FALSE, IsRepair |-> FALSE, Timestamp |-> 1]]
    /\ diskPending = memPending
    /\ memPaired = EmptyMap
    /\ diskPaired = EmptyMap
    /\ nextTok = 0
    /\ faults = 0

NextApprove ==
    \/ \E t \in Threads : \E r \in 1..MaxStoreReqs : StartApprove(t, r)
    \/ \E t \in Threads : \E r \in 1..MaxStoreReqs : StartReject(t, r)
    \/ \E t \in Threads : ApproveRemove(t)
    \/ \E t \in Threads : ApproveGet(t)
    \/ \E t \in Threads : ApproveSetPaired(t)
    \/ \E t \in Threads : ApproveSetToken(t)
    \/ \E t \in Threads : ApproveRefetch(t)
    \/ \E t \in Threads : Reject(t)

SpecApprove == InitApprove /\ [][NextApprove]_vars

\* the calls on request r that are past their RemovePending, and those of
\* them that obtained the record
Decided(r) ==
    {t \in Threads : /\ svc[t].op \in {"Approve", "Reject"}
                     /\ svc[t].RequestID = r
                     /\ svc[t].pc \notin {"ap_remove", "rj_remove"}}

Obtained(r) == {t \in Decided(r) : svc[t].removed # Nil}

\* C37: of the Approve and Reject calls on one request id at most one obtains
\* the record, so the request is never both approved and rejected nor
\* approved twice, and every other call returns absent.
C37_OneCallObtains ==
    \A r \in 1..MaxStoreReqs :
        /\ Cardinality(Obtained(r)) <= 1
        /\ \A t \in Obtained(r) : svc[t].removed[1].RequestID = r
        /\ \A t \in Decided(r) \ Obtained(r) :
                svc[t].pc = "ret" /\ svc[t].outDevice = Nil /\ ~svc[t].err

\* an Approve and a Reject on the same request are both past their
\* RemovePending: one of them obtained the record, the other returned absent
C37_Witness ==
    \E r \in 1..MaxStoreReqs : \E t, u \in Decided(r) :
        /\ svc[t].op = "Approve" /\ svc[u].op = "Reject"
        /\ Cardinality(Obtained(r)) = 1
        /\ \E v \in Decided(r) \ Obtained(r) : svc[v].op = "Approve"

\* The token operations of the pairing service called concurrently, on a
\* store that was opened over one paired device with a token for role node.
PairedA ==
    [DeviceID |-> "dA", PublicKey |-> "kA", Role |-> "node", Scopes |-> <<>>,
     Tokens |-> MapPut(EmptyMap, "node", NewToken(1, "node", <<>>, 0)),
     CreatedAtMs |-> 1, ApprovedAtMs |-> 1]

InitToken ==
    /\ cfg = [pairing |-> TRUE, authMode |-> "none"]
    /\ InitCommon
    /\ memPending = EmptyMap
    /\ diskPending = EmptyMap
    /\ memPaired = MapPut(EmptyMap, "dA", PairedA)
    /\ diskPaired = MapPut(EmptyMap, "dA", PairedA)
    /\ nextTok = 1
    /\ faults = 0

NextToken ==
    \/ \E t \in TokenCallers : \E tok \in 0..nextTok, s \in CapsLists :
            StartVerify(t, "dA", "node", tok, s)
    \/ \E t \in TokenCallers : StartRevoke(t, "dA", "node")
    \/ \E t \in TokenCallers : \E s \in CapsLists : StartEnsure(t, "dA", "node", s)
    \/ \E t \in TokenCallers : VerifyDeviceToken(t)
    \/ \E t \in TokenCallers : VerifyDeviceTokenSet(t)
    \/ \E t \in TokenCallers : RevokeDeviceToken(t)
    \/ \E t \in TokenCallers : RevokeDeviceTokenSet(t)
    \/ \E t \in TokenCallers : EnsureDeviceToken(t)
    \/ \E t \in TokenCallers : EnsureDeviceTokenSet(t)
    \/ \E t \in TokenCallers : ApiReturn(t)

SpecToken == InitToken /\ [][NextToken]_vars

\* The token operations called for the paired device with the role that has
\* a token and with one that has none, and for an unknown device.
VerifyTargets == {<<"dA", "node">>, <<"dA", "operator">>, <<"dB", "node">>}

NextVerify ==
    \/ \E t \in TokenCallers : \E dr \in VerifyTargets, tok \in 0..nextTok, s \in CapsLists :
            /\ dr[1] = "dA" \/ (tok = 0 /\ s = <<>>)
            /\ StartVerify(t, dr[1], dr[2], tok, s)
    \/ \E t \in TokenCallers : StartRevoke(t, "dA", "node")
    \/ \E t \in TokenCallers : \E s \in CapsLists : StartEnsure(t, "dA", "node", s)
    \/ \E t \in TokenCallers : VerifyDeviceToken(t)
    \/ \E t \in TokenCallers : VerifyDeviceTokenSet(t)
    \/ \E t \in TokenCallers : RevokeDeviceToken(t)
    \/ \E t \in TokenCallers : RevokeDeviceTokenSet(t)
    \/ \E t \in TokenCallers : EnsureDeviceToken(t)
    \/ \E t \in TokenCallers : EnsureDeviceTokenSet(t)
    \/ \E t \in TokenCallers : ApiReturn(t)

SpecVerify == InitToken /\ [][NextVerify]_vars

\* EnsureDeviceToken called for the paired device with the role that has a
\* token and with one that has none, and for an unknown device, while the
\* stored token is revoked by other calls.
NextEnsure ==
    \/ \E t \in TokenCallers : \E dr \in VerifyTargets, s \in CapsLists :
            StartEnsure(t, dr[1], dr[2], s)
    \/ \E t \in TokenCallers : StartRevoke(t, "dA", "node")
    \/ \E t \in TokenCallers : EnsureDeviceToken(t)
    \/ \E t \in TokenCallers : EnsureDeviceTokenSet(t)
    \/ \E t \in TokenCallers : RevokeDeviceToken(t)
    \/ \E t \in TokenCallers : RevokeDeviceTokenSet(t)
    \/ \E t \in TokenCallers : ApiReturn(t)

SpecEnsure == InitToken /\ [][NextEnsure]_vars

\* An Approve that has returned a device for a request a remote connection
\* created
ApprovedRemote(t) ==
    /\ svc[t].pc = "ret"
    /\ svc[t].op = "Approve"
    /\ svc[t].outDevice # Nil
    /\ ~svc[t].removed[1].Silent

\* a session whose handshake is over: it has written its connect response or
\* has ended without one
Answered(d) == conn[d].pc \notin {"accept", "read1", "vd_cps", "vd_ensure", "reply_ok"}

\* The peer opens its next connection once the earlier one has been answered
\* and the operator's Approve has returned a device.
ReconnectReady(c) ==
    c > 1 => /\ \E t \in Ops : ApprovedRemote(t)
             /\ \A d \in Conns : d < c => Answered(d)

\* The pairing flow of the README, one step after the other: a remote peer
\* connects, the operator approves a request, the peer connects again. No
\* token needs replacing in this flow, so EnsureDeviceToken never has to set one.
NextReconnect ==
    \/ \E c \in Conns : \E written \in BOOLEAN : ReconnectReady(c) /\ Accept(c, FALSE, written)
    \/ \E c \in Conns : ReadConnectError(c)
    \/ \E c \in Conns : ReadConnect(c)
    \/ \E c \in Conns : \E written \in BOOLEAN : ReplyOk(c, written)
    \/ \E c \in Conns : ReadError(c)
    \/ \E c \in Conns : Shutdown(c)
    \/ \E c \in Conns : OnDisconnected(c)
    \/ \E c \in Conns : CancelPendingForNode(c)
    \/ \E c \in Conns : CancelPendingClose(c)
    \/ \E c \in Conns : VerifyDeviceStatus(c)
    \/ \E c \in Conns : VerifyDeviceEnsured(c)
    \/ \E t \in Threads : StoreReload(t)
    \/ \E t \in Threads : CheckPairingStatus(t)
    \/ \E t \in Threads : RequestPairingGet(t)
    \/ \E t \in Threads : RequestPairingList(t)
    \/ \E t \in Threads : RequestPairingAdd(t)
    \/ \E t \in Threads : ApproveRemove(t)
    \/ \E t \in Threads : ApproveGet(t)
    \/ \E t \in Threads : ApproveSetPaired(t)
    \/ \E t \in Threads : ApproveSetToken(t)
    \/ \E t \in Threads : ApproveRefetch(t)
    \/ \E t \in Threads : EnsureDeviceToken(t)
    \/ \E t \in Ops : \E r \in 1..nextReq : StartApprove(t, r)

SpecReconnect == InitPairing /\ [][NextReconnect]_vars


\* time.Now().UnixMilli() moves on: first by the TTL of a pending request,
\* then by single milliseconds, until a request made at the start is older
\* than the TTL
Tick ==
    /\ now <= PendingTTLMs + 1
    /\ now' = IF now < PendingTTLMs THEN now + PendingTTLMs ELSE now + 1
    /\ UNCHANGED <<connVars, sysVars, invVars, storeVars, svc, nextReq, nextTok, faults, revoked>>

\* The pairing flow with time passing between its steps.
NextExpiry ==
    \/ NextReconnect
    \/ Tick

SpecExpiry == InitPairing /\ [][NextExpiry]_vars

\* One caller of the Store's methods on a store opened over an empty state
\* directory; one save may fail.
InitStore ==
    /\ cfg = [pairing |-> TRUE, authMode |-> "none"]
    /\ InitCommon
    /\ EmptyStore
    /\ faults = 0

NextStore ==
    \/ \E t \in Ops : \E req \in StoreReqs : AddPending(t, req)
    \/ \E t \in Ops : \E r \in 1..MaxStoreReqs : RemovePending(t, r)
    \/ \E t \in Ops : \E d \in StoreDevices : SetPaired(t, d)
    \/ \E t \in Ops : \E patch \in Patches : UpdateDeviceMetadata(t, "dA", patch)
    \/ \E t \in Ops : SetDeviceToken(t, "dA", "node", NewToken(1, "node", <<>>, 0))
    \/ \E t \in Ops : \E nowMs \in {now, now + PendingTTLMs + 1} : PruneExpiredPending(t, nowMs)

SpecStore == InitStore /\ [][NextStore]_vars

\* Store.PruneExpiredPending called with the current time on a store that
\* holds requests of different ages, some of them exactly as old as the TTL.
PruneReqs ==
    [RequestID : 1..MaxStoreReqs, DeviceID : {"dA"}, PublicKey : {"kA"}, Role : {"node"},
     Scopes : {<<>>}, Silent : {FALSE}, IsRepair : {FALSE}, Timestamp : {1, 2}]

NextPrune ==
    \/ \E t \in Ops : \E req \in PruneReqs : AddPending(t, req)
    \/ \E t \in Ops : \E d \in StoreDevices : SetPaired(t, d)
    \/ \E t \in Ops : PruneExpiredPending(t, now)
    \/ Tick

SpecPrune == InitStore /\ [][NextPrune]_vars

\* Store.GetPairedDevice called by a goroutine that keeps the record: the
\* struct is copied under the mutex, and its Tokens field is the map of the
\* store's own record, since a Go map value is a reference.
HoldPairedDevice(t, deviceID) ==
    /\ svc' = [svc EXCEPT ![t] =
            [StoreReturn("GetPairedDevice", FALSE) EXCEPT !.DeviceID = deviceID,
                                                          !.outDevice = GetPairedDevice(deviceID)]]
    /\ UNCHANGED <<connVars, sysVars, invVars, revoked, storeVars, nextReq, nextTok, now, faults>>

\* the holders of a record, and the record as its holder reads it now: the
\* scalar fields it was returned with and the token map it shares with the
\* store, which Store.SetDeviceToken writes in place
Holders ==
    {t \in Threads : svc[t].op = "GetPairedDevice" /\ svc[t].outDevice # Nil}

HeldRecord(t) ==
    [svc[t].outDevice[1] EXCEPT !.Tokens = memPaired[svc[t].DeviceID].Tokens]

\* device.Tokens[role] as the callers in service.go read it, after the
\* store's mutex was released
LookupToken(t, role) ==
    /\ t \in Holders
    /\ svc[t].tok = Nil
    /\ role \in DOMAIN HeldRecord(t).Tokens
    /\ svc' = [svc EXCEPT ![t].tok = Ptr(HeldRecord(t).Tokens[role]), ![t].Role = role]
    /\ UNCHANGED <<connVars, sysVars, invVars, revoked, storeVars, nextReq, nextTok, now, faults>>

\* Goroutines that hold records of the paired device while others set its
\* tokens and patch its metadata.
HeldTokens ==
    {[NewToken(v, "node", <<>>, 0) EXCEPT !.CreatedAtMs = 1, !.RevokedAtMs = r] :
        v \in 1..MaxTokens, r \in {0, 1}}

NextHold ==
    \/ \E t \in TokenCallers : \E d \in {"dA", "dB"} : HoldPairedDevice(t, d)
    \/ \E t \in TokenCallers : LookupToken(t, "node")
    \/ \E t \in TokenCallers : \E tok \in HeldTokens : SetDeviceToken(t, "dA", "node", tok)
    \/ \E t \in TokenCallers : \E patch \in Patches : UpdateDeviceMetadata(t, "dA", patch)

SpecHold == InitToken /\ [][NextHold]_vars

\* C35: a record returned by a read of the Store is a snapshot: whatever the
\* store is told later, the record reads as it did when it was returned, and
\* the token its holder looks up in it is the one it was returned with.
C35_RecordsAreSnapshots ==
    \A t \in Holders :
        /\ HeldRecord(t) = svc[t].outDevice[1]
        /\ svc[t].tok # Nil => svc[t].tok[1] = svc[t].outDevice[1].Tokens[svc[t].Role]

\* Saves of the two files, step by step, with the process dying and starting
\* again at any point; one step of a save may fail.
NextCrash ==
    \/ \E t \in Ops : \E req \in StoreReqs : AddPendingSave(t, req)
    \/ \E t \in Ops : \E d \in StoreDevices : SetPairedSave(t, d)
    \/ \E t \in Ops : SaveJSONCreate(t)
    \/ \E t \in Ops : SaveJSONWrite(t)
    \/ \E t \in Ops : SaveJSONRename(t)
    \/ Crash

SpecCrash == InitStore /\ [][NextCrash]_vars

\* The gateway from the listener's side: connections are upgraded while the
\* listener is open, the context is cancelled at any moment, and the two
\* goroutines that wait for it run: the one of ListenAndServe and the one
\* calling Gateway.Shutdown. A read or a write on a transport that is closed
\* fails.
InitShutdown ==
    /\ cfg = [pairing |-> FALSE, authMode |-> "none"]
    /\ conn = [c \in Conns |-> [InitConn EXCEPT !.pc = "listen"]]
    /\ byNodeID = [n \in NodeIds |-> 0]
    /\ byConnID = [c \in Conns |-> ""]
    /\ gwConns = {}
    /\ pending = {}
    /\ pi = [id \in InvokeIds |-> NewPendingInvoke("")]
    /\ inv = [i \in Callers |-> InitInvoke]
    /\ nextId = 0
    /\ nextNonce = 0
    /\ svc = [t \in Threads |-> NoFrame]
    /\ nextReq = 0
    /\ now = 1
    /\ revoked = {}
    /\ srv = InitSrv
    /\ fs = InitFs
    /\ EmptyStore
    /\ faults = 0

\* the steps of a session that wait for nothing but the scheduler
SessionRun(c) ==
    \/ \E written \in BOOLEAN : (written => ~conn[c].wsClosed) /\ Accept(c, FALSE, written)
    \/ \E written \in BOOLEAN : (written => ~conn[c].wsClosed) /\ ReplyOk(c, written)
    \/ Shutdown(c)
    \/ OnDisconnected(c)
    \/ CancelPendingForNode(c)
    \/ CancelPendingClose(c)

\* a read on a transport the server has closed returns an error
ReadClosed(c) ==
    /\ conn[c].wsClosed
    /\ ReadConnectError(c) \/ ReadError(c)

\* the steps of the two goroutines that shut the server down
CloserRun ==
    \/ CloserSnapshot
    \/ \E c \in Conns : CloserClose(c)
    \/ CloserHttpClose

ShutdownRun ==
    \/ ShutdownBroadcast
    \/ \E c \in Conns : ShutdownSend(c)
    \/ ShutdownSnapshot
    \/ \E c \in Conns : ShutdownClose(c)
    \/ ShutdownHttp

NextShutdown ==
    \/ \E c \in Conns : Upgrade(c)
    \/ \E c \in Conns : SessionRun(c)
    \/ \E c \in Conns : ~conn[c].wsClosed /\ ReadConnect(c)
    \/ \E c \in Conns : ReadConnectError(c)
    \/ \E c \in Conns : ReadError(c)
    \/ CtxCancel
    \/ CloserRun
    \/ ShutdownRun

\* Every goroutine of the server keeps running, and a blocked read returns
\* once its transport is closed; nothing is assumed of the peers.
ShutdownFairness ==
    /\ \A c \in Conns : WF_vars(SessionRun(c)) /\ WF_vars(ReadClosed(c))
    /\ WF_vars(CloserRun)
    /\ WF_vars(ShutdownRun)

SpecShutdown == InitShutdown /\ [][NextShutdown]_vars /\ ShutdownFairness

\* ------------------------------------------------------------------------
\* Properties
\* ------------------------------------------------------------------------
\* the device CheckPairingStatus read is no paired device of the same key
Unpaired(f) == f.device = Nil \/ f.device[1].PublicKey # f.PublicKey

\* a session that is in the registry or in the gateway's set
Registered(c) ==
    \/ byConnID[c] # ""
    \/ \E n \in NodeIds : byNodeID[n] = c
    \/ c \in gwConns

\* C1: with a pairing service attached, a session from a non-loopback
\* address whose device payload passed the three checks and for which
\* CheckPairingStatus read no paired device of the same deviceId and
\* publicKey replies NOT_PAIRED and goes to its shutdown; a session that
\* replied NOT_PAIRED is not authenticated and not registered, and its next
\* step closes it.
C1_RemoteUnpairedRejected ==
    /\ [](\A c \in Conns :
            conn[c].reply = "NOT_PAIRED" =>
                /\ conn[c].State = "connecting"
                /\ conn[c].pc = "shutdown"
                /\ ~Registered(c))
    /\ [][\A c \in Conns :
            /\ (/\ conn[c].pc = "vd_cps"
                /\ svc[c].pc = "ret"
                /\ ~conn[c].isLocal
                /\ Unpaired(svc[c])
                /\ conn'[c] # conn[c])
               => (conn'[c].reply = "NOT_PAIRED" /\ conn'[c].pc = "shutdown")
            /\ (conn[c].reply = "NOT_PAIRED" /\ conn'[c] # conn[c])
               => (conn'[c].State = "closed" /\ conn'[c].pc = "done")]_vars

\* C1 witness: a remote session has replied NOT_PAIRED while the store holds
\* a paired device (paired under another key text, or approved meanwhile)
C1_Witness ==
    \E c \in Conns :
        /\ conn[c].reply = "NOT_PAIRED"
        /\ ~conn[c].isLocal
        /\ DOMAIN memPaired # {}

\* C2: with a pairing service attached, every session from a non-loopback
\* address that is authenticated belongs to a device with a paired record in
\* the store, whatever its connect request contains or omits.
C2_RemoteAuthenticatedIsPaired ==
    \A c \in Conns :
        (conn[c].State = "authenticated" /\ ~conn[c].isLocal)
            => conn[c].DeviceID \in DOMAIN memPaired

\* C3: every device payload the handshake accepted carries a signature that
\* verifies under its publicKey over the canonical payload rebuilt from the
\* connect fields with the challenge nonce of this connection, a nonce equal
\* to that challenge, and an id equal to DeriveDeviceID(publicKey).
C3_AcceptedPayloadChecked ==
    \A c \in Conns :
        conn[c].DeviceID # "" =>
            LET f == conn[c].params
                d == f.Device
            IN  /\ f.hasDevice
                /\ decodePublicKey(d.PublicKey) # ""
                /\ d.Signature.signer = decodePublicKey(d.PublicKey)
                /\ d.Signature.payload = BuildAuthPayload(
                        [DeviceID |-> d.ID, ClientID |-> f.ClientID,
                         ClientMode |-> f.ClientMode, Role |-> ResolveRole(f.Role),
                         Scopes |-> f.Caps, SignedAtMs |-> d.SignedAt,
                         Token |-> PayloadToken(cfg),
                         Nonce |-> conn[c].challengeNonce])
                /\ d.Nonce = conn[c].challengeNonce
                /\ d.ID = DeriveDeviceID(d.PublicKey)
                /\ conn[c].DeviceID = d.ID

\* C3 witness: a payload was accepted on a connection while the challenge of
\* another connection was known to the peers
C3_Witness ==
    \E c \in Conns, d \in Conns :
        /\ conn[c].DeviceID # ""
        /\ conn[d].challengeNonce # ""
        /\ conn[d].challengeNonce # conn[c].challengeNonce

\* C4: no VerifyDeviceToken call that started after RevokeDeviceToken had
\* returned the revoked record, and that presents the revoked token value
\* for the same device and role, returns ok.
C4_RevokedNeverVerifies ==
    \A t \in Threads :
        ~(/\ svc[t].op = "Verify"
          /\ svc[t].pc = "ret"
          /\ svc[t].status = "ok"
          /\ svc[t].afterRevoke)

\* C5: HandleResult never waits for ever: no session stands at the send of
\* HandleResult on a full result channel whose Invoke has left its select.
C5_HandleResultReturns ==
    \A c \in Conns :
        conn[c].pc = "hr_send" =>
            ~(/\ Len(pi[conn[c].hrPi].result) >= ResultChanCap
              /\ \A i \in Callers :
                    inv[i].id = conn[c].hrPi => inv[i].pc \in {"defer", "returned"})

\* C6: every Invoke that returned a result returned the result whose id is
\* the id this Invoke minted.
C6_ResultMatchesId ==
    \A i \in Callers : inv[i].ret = "result" => inv[i].res.ID = inv[i].id

\* C6 witness: two Invoke calls have both returned a result
C6_Witness ==
    \E i \in Callers, j \in Callers :
        /\ i # j
        /\ inv[i].ret = "result" /\ inv[j].ret = "result"
        /\ inv[i].id # inv[j].id

\* C7: once the session over which an invocation was emitted is gone, the
\* invocation that still waits has had its cancel channel closed.
C7_DisconnectCancels ==
    \A i \in Callers :
        (inv[i].pc = "wait" /\ conn[inv[i].session].pc = "done")
            => pi[inv[i].id].cancel > 0

\* C8: the cancel channel of a pending invocation is closed at most once.
C8_CancelClosedOnce ==
    \A id \in InvokeIds : pi[id].cancel <= 1

C10_PendingOnlyDuringInvoke ==
    /\ pending = {inv[i].id : i \in {j \in Callers : inv[j].pc \in {"send", "wait", "defer"}}}
    /\ (\A i \in Callers : inv[i].pc \in {"idle", "returned"}) => pending = {}

\* C10 witness: every return path of Invoke has been taken by some call that
\* has returned, and the map is empty
C10_Witness ==
    /\ \A i \in Callers : inv[i].pc = "returned" /\ inv[i].id # 0
    /\ \E i \in Callers : inv[i].ret \in {"invoke timeout", "context canceled", "send failed"}
    /\ pending = {}

C12_ReconnectReplaces ==
    [][/\ \A c \in Conns :
            /\ (conn[c].pc = "reply_ok" /\ conn'[c].State = "authenticated" /\ NodeRole(c))
                => /\ byNodeID'[conn[c].params.ClientID] = c
                   /\ {d \in Conns : byConnID'[d] = conn[c].params.ClientID} = {c}
            /\ (/\ conn[c].pc = "od_unreg"
                /\ conn'[c] # conn[c]
                /\ byNodeID[conn[c].params.ClientID] # c)
                => /\ byNodeID' = byNodeID
                   /\ byConnID' = byConnID
                   /\ conn'[c].pc = "done"
       /\ \A n \in NodeIds, d \in Conns :
            (byNodeID[n] = d /\ byNodeID'[n] # d)
                => \/ conn[d].pc = "od_unreg" /\ conn'[d] # conn[d]
                   \/ byNodeID'[n] # 0]_vars

\* C12 witness: the first session of a node starts its teardown after a
\* second connection has registered the same nodeId
C12_Witness ==
    \E c \in Conns, d \in Conns :
        /\ c # d
        /\ conn[c].pc = "od_unreg"
        /\ NodeRole(c)
        /\ byNodeID[conn[c].params.ClientID] = d
        /\ conn[d].State = "authenticated"

\* the state changes a session may make (none: the Conn does not exist yet)
StateChanges ==
    {<<"none", "connecting">>, <<"connecting", "authenticated">>,
     <<"connecting", "closed">>, <<"authenticated", "closed">>}

\* C13: the state of a session changes only from connecting to authenticated,
\* from connecting to closed or from authenticated to closed, so closed is
\* terminal; and every session whose Run has returned is closed.
C13_StateMachine ==
    /\ [](\A c \in Conns : conn[c].pc = "done" => conn[c].State = "closed")
    /\ [][\A c \in Conns :
            conn'[c].State # conn[c].State
                => <<conn[c].State, conn'[c].State>> \in StateChanges]_vars

\* C13 witness: one session was closed from authenticated and runs its
\* teardown, another has returned
C13_Witness ==
    \E c \in Conns, d \in Conns :
        /\ conn[c].pc = "od_unreg" /\ conn[c].State = "closed"
        /\ conn[d].pc = "done"

\* C14: a session dispatches a request to OnRequest only in state
\* authenticated, after it wrote the success response of its connect
\* handshake; the frame an authenticated session read first was a connect
\* request; and whatever the first frame is, reading it leads to the connect
\* processing, never to a dispatch.
C14_HandshakeBeforeDispatch ==
    /\ [](\A c \in Conns :
            /\ conn[c].pc = "hr_send"
                => /\ conn[c].State = "authenticated"
                   /\ conn[c].reply = "OK"
                   /\ conn[c].hasParams
            /\ conn[c].State = "authenticated"
                => conn[c].params.isReq /\ conn[c].params.Method = "connect")
    /\ [][\A c \in Conns :
            (conn[c].pc = "read1" /\ conn'[c] # conn[c])
                => /\ conn'[c].pc \in {"shutdown", "reply_ok", "vd_cps"}
                   /\ conn'[c].hr = NoResult
                   /\ conn'[c].State = "connecting"]_vars

\* C14 witness: a session is inside OnRequest, delivering a result
C14_Witness ==
    \E c \in Conns : conn[c].pc = "hr_send" /\ conn[c].hr.ID \in pending

\* the error codes of the handshake
HandshakeErrors ==
    {"INVALID_METHOD", "PROTOCOL_MISMATCH", "UNAUTHORIZED", "INVALID_SIGNATURE",
     "INVALID_NONCE", "INVALID_DEVICE_ID", "NOT_PAIRED", "PAIRING_ERROR"}

\* C15: a session that answered its connect request with an error code is
\* still connecting, has stored no connect params, has dispatched nothing,
\* is in neither index of the registry nor in the gateway's set, and is on
\* its way to shutdown; its next step closes it and ends Run.
C15_HandshakeErrorFatal ==
    /\ [](\A c \in Conns :
            conn[c].reply \in HandshakeErrors
                => /\ conn[c].State = "connecting"
                   /\ conn[c].pc = "shutdown"
                   /\ ~conn[c].hasParams
                   /\ conn[c].hr = NoResult
                   /\ ~Registered(c))
    /\ [][\A c \in Conns :
            (conn[c].reply \in HandshakeErrors /\ conn'[c] # conn[c])
                => /\ conn'[c].State = "closed"
                   /\ conn'[c].pc = "done"
                   /\ byNodeID' = byNodeID
                   /\ byConnID' = byConnID]_vars

\* C15 witness: a session answered a device error while another one, with a
\* verified device, is authenticated
C15_Witness ==
    \E c \in Conns, d \in Conns :
        /\ conn[c].reply \in {"INVALID_SIGNATURE", "INVALID_NONCE", "INVALID_DEVICE_ID"}
        /\ conn[d].State = "authenticated"
        /\ conn[d].DeviceID # ""

\* the positions of a session inside Gateway.OnDisconnected
InOnDisconnected == {"od_unreg", "cp_collect", "cp_close", "panicked"}

\* C16: OnDisconnected is entered only from shutdown, by a session that was
\* authenticated when its read loop ended; such a session enters it with its
\* next step; a session that was not authenticated returns from shutdown
\* without it; and shutdown runs once, so it is entered at most once.
C16_DisconnectedOnce ==
    /\ [](\A c \in Conns :
            conn[c].pc \in InOnDisconnected
                => conn[c].State = "closed" /\ conn[c].reply = "OK")
    /\ [][\A c \in Conns :
            /\ (conn'[c].pc = "od_unreg" /\ conn[c].pc # "od_unreg")
                => conn[c].pc = "shutdown" /\ conn[c].State = "authenticated"
            /\ (conn[c].pc = "shutdown" /\ conn[c].State = "authenticated"
                    /\ conn'[c] # conn[c])
                => conn'[c].pc = "od_unreg"
            /\ (conn[c].pc = "shutdown" /\ conn[c].State # "authenticated"
                    /\ conn'[c] # conn[c])
                => conn'[c].pc = "done"
            /\ conn[c].pc \in InOnDisconnected \cup {"done"}
                => conn'[c].pc \notin {"shutdown", "loop", "hr_send"}
                   /\ (conn'[c].pc = "od_unreg" => conn[c].pc = "od_unreg")]_vars

\* C16 witness: OnDisconnected of one session cancels an invocation while
\* another session, closed during its handshake, is in shutdown
C16_Witness ==
    \E c \in Conns, d \in Conns :
        /\ conn[c].pc = "cp_close" /\ conn[c].toCancel # {}
        /\ conn[d].pc = "shutdown" /\ conn[d].State = "connecting"

\* C17: a session whose role does not resolve to "node" is in neither index
\* of the registry nor in the gateway's set, and no Invoke call got it from
\* the registry; every session in the registry was authenticated.
C17_OnlyNodesRegistered ==
    \A c \in Conns :
        /\ ResolveRole(conn[c].params.Role) # "node"
            => /\ ~Registered(c)
               /\ \A i \in Callers : inv[i].session # c
        /\ Registered(c) => conn[c].reply = "OK" /\ conn[c].hasParams

\* C17 witness: an operator session is authenticated and connected, and an
\* Invoke for its client id found no node
C17_Witness ==
    \E c \in Conns, i \in Callers :
        /\ conn[c].State = "authenticated"
        /\ conn[c].pc = "loop"
        /\ conn[c].params.Role = "operator"
        /\ inv[i].pc = "returned"
        /\ inv[i].ret = "not connected"
        /\ inv[i].NodeID = conn[c].params.ClientID

\* the store holds a paired device of this id and key text
PairedWith(paired, deviceID, publicKey) ==
    deviceID \in DOMAIN paired /\ paired[deviceID].PublicKey = publicKey

\* C18: when CheckPairingStatus returns to a loopback session for a device it
\* read as not paired with the presented key, the handshake goes on, the
\* store holds a paired device of that deviceId and publicKey with a
\* non-revoked token for the requested role, and no pending request of that
\* deviceId; and the token verifyDevice then returns for the connect response
\* of an auto-approved session is that stored token, and not empty.
C18_LoopbackAutoApproved ==
    [][\A c \in Conns :
        /\ (/\ conn[c].pc = "vd_cps"
            /\ svc[c].pc = "ret"
            /\ conn[c].isLocal
            /\ Unpaired(svc[c])
            /\ conn'[c] # conn[c])
            => /\ conn'[c].pc = "vd_ensure"
               /\ PairedWith(memPaired, svc[c].DeviceID, svc[c].PublicKey)
               /\ svc[c].Role \in DOMAIN memPaired[svc[c].DeviceID].Tokens
               /\ memPaired[svc[c].DeviceID].Tokens[svc[c].Role].RevokedAtMs = 0
               /\ \A r \in DOMAIN memPending : memPending[r].DeviceID # svc[c].DeviceID
        /\ (/\ conn[c].pc = "vd_ensure"
            /\ conn[c].isLocal
            /\ conn[c].action = "auto-approved"
            /\ conn'[c] # conn[c])
            => /\ conn'[c].pc = "reply_ok"
               /\ conn'[c].DeviceToken # 0
               /\ conn[c].DeviceID \in DOMAIN memPaired
               /\ svc[c].Role \in DOMAIN memPaired[conn[c].DeviceID].Tokens
               /\ memPaired[conn[c].DeviceID].Tokens[svc[c].Role].Token = conn'[c].DeviceToken
               /\ memPaired[conn[c].DeviceID].Tokens[svc[c].Role].RevokedAtMs = 0]_vars

\* C19: at the return of CheckPairingStatus, a status paired or
\* auto-approved comes with a paired device of the given deviceId and
\* publicKey in the store; and a loopback call whose RequestPairing failed,
\* or whose Approve found the request gone, returns pairing-required.
C19_PairedOnlyWhenPaired ==
    [][\A t \in Threads :
        /\ (/\ svc'[t].op = "CheckPairingStatus"
            /\ svc'[t].pc = "ret"
            /\ svc[t].pc # "ret"
            /\ svc'[t].status \in {"paired", "auto-approved"})
            => PairedWith(memPaired', svc'[t].DeviceID, svc'[t].PublicKey)
        /\ (/\ svc[t].op = "CheckPairingStatus"
            /\ svc[t].cont = "cps_local"
            /\ svc[t].pc = "ap_remove"
            /\ GetPendingRequest(svc[t].RequestID) = Nil
            /\ svc'[t] # svc[t])
            => svc'[t].pc = "ret" /\ svc'[t].status = "pairing-required"
        /\ (/\ svc'[t].op = "CheckPairingStatus"
            /\ svc'[t].cont = "cps_local"
            /\ svc'[t].err
            /\ ~svc[t].err)
            => svc'[t].pc = "ret" /\ svc'[t].status = "pairing-required"]_vars

\* C20: when a session replies NOT_PAIRED, the requestId of the reply is the
\* id of a request that is pending in the store, for the deviceId of the
\* session, with silent = false.
C20_NotPairedRequestPending ==
    [][\A c \in Conns :
        (conn'[c].reply = "NOT_PAIRED" /\ conn[c].reply # "NOT_PAIRED")
            => /\ conn'[c].replyRequestID \in DOMAIN memPending
               /\ conn'[c].replyRequestID \in DOMAIN diskPending
               /\ memPending[conn'[c].replyRequestID].DeviceID = conn[c].DeviceID
               /\ ~memPending[conn'[c].replyRequestID].Silent]_vars

\* a connection of the device whose request Approve t approved: a device
\* payload that passed the checks of verifyDevice, from a non-loopback
\* address, with the key of the approved request
ReconnectOf(c, t) ==
    /\ ApprovedRemote(t)
    /\ conn[c].params.hasDevice
    /\ ~conn[c].isLocal
    /\ decodePublicKey(conn[c].params.Device.PublicKey)
            = decodePublicKey(svc[t].removed[1].PublicKey)

\* C21: after a remote device was answered NOT_PAIRED with request r and
\* Approve(r) has returned a device, the next connection of that device with
\* the same key and role is not refused by the pairing check, and its success
\* response carries a device token.
C21_ReconnectAuthenticated ==
    \A c \in Conns, t \in Ops :
        (c > 1 /\ ReconnectOf(c, t)) =>
            /\ conn[c].reply \notin {"NOT_PAIRED", "PAIRING_ERROR"}
            /\ conn[c].reply = "OK" => conn[c].DeviceToken # 0

\* C22: the store never holds two pending requests for the same deviceId,
\* also when several connections of the device call RequestPairing at once.
C22_OnePendingPerDevice ==
    \A r1, r2 \in DOMAIN memPending :
        memPending[r1].DeviceID = memPending[r2].DeviceID => r1 = r2

\* C23: Approve of an existing pending request removes the request and
\* leaves, when it returns, a paired device with the request's deviceId and
\* publicKey; the token it sets for a non-empty role is fresh, not revoked and
\* has the request's role and scopes. Approve of an unknown requestId returns
\* absent and changes neither the pending nor the paired map.
C23_ApproveContract ==
    [][\A t \in Threads :
        LET f == svc[t]
            g == svc'[t]
        IN  /\ (f.pc = "ap_remove" /\ g.pc # "ap_remove" /\ GetPendingRequest(f.RequestID) = Nil) =>
                    /\ g.outDevice = Nil
                    /\ ~g.err
                    /\ memPending' = memPending
                    /\ memPaired' = memPaired
            /\ (f.pc = "ap_settoken" /\ g.pc = "ap_refetch") =>
                    LET removed == f.removed[1]
                        tok == memPaired'[removed.DeviceID].Tokens[removed.Role]
                    IN  /\ tok.Token = nextTok'
                        /\ nextTok' > nextTok
                        /\ tok.RevokedAtMs = 0
                        /\ tok.Role = removed.Role
                        /\ tok.Scopes = removed.Scopes
            /\ (f.pc = "ap_refetch" /\ g.pc # "ap_refetch") =>
                    LET removed == f.removed[1]
                    IN  /\ removed.RequestID \notin DOMAIN memPending'
                        /\ PairedWith(memPaired', removed.DeviceID, removed.PublicKey)
                        /\ g.outDevice # Nil
                        /\ g.outDevice[1].PublicKey = removed.PublicKey
                        /\ removed.Role # "" =>
                            /\ removed.Role \in DOMAIN g.outDevice[1].Tokens
                            /\ g.outDevice[1].Tokens[removed.Role].RevokedAtMs = 0
                            /\ g.outDevice[1].Tokens[removed.Role].Scopes = removed.Scopes
    ]_vars

\* C24: a pending request older than PendingTTLMs is unreachable from every
\* API: GetPendingRequest and ListPending do not return it, RequestPairing
\* does not return it as the existing request of the device, and Approve of
\* its id returns absent and pairs nothing.
C24_ExpiredUnreachable ==
    [][\A r \in DOMAIN memPending :
        Expired(memPending[r], now) =>
            /\ GetPendingRequest(r) = Nil
            /\ \A list \in ListPending : \A i \in 1..Len(list) : list[i].RequestID # r
            /\ \A t \in Threads :
                (svc[t].pc = "rp_list" /\ svc'[t].pc # "rp_list") =>
                    (svc'[t].pend = Nil \/ svc'[t].pend[1].RequestID # r)
            /\ \A t \in Threads :
                (svc[t].pc = "ap_remove" /\ svc[t].RequestID = r /\ svc'[t].pc # "ap_remove") =>
                    /\ svc'[t].pc = "ret"
                    /\ svc'[t].outDevice = Nil
    ]_vars

\* C25: a mutating Store operation that returns without an error has left
\* the files equal to the maps in memory; a failed save is reported to the
\* caller, and the maps in memory are then as they were before the call.
C25_PersistBeforeSuccess ==
    [][\A t \in Ops :
        (svc'[t].pc = "ret" /\ svc'[t].op \in StoreOps) =>
            /\ ~svc'[t].err => (diskPending' = memPending' /\ diskPaired' = memPaired')
            /\ faults' # faults => svc'[t].err
            /\ svc'[t].err => (memPending' = memPending /\ memPaired' = memPaired)
    ]_vars

\* a save in progress has left its target file complete, holding the content
\* from before the save or the content being saved
TargetsWhole ==
    \A t \in Threads :
        svc[t].pc \in SavePcs =>
            /\ svc[t].file \notin fs.torn
            /\ Target(svc[t].file) \in {svc[t].before, svc[t].data}

\* C26: at every step of a write the target file holds the complete previous
\* or the complete new content, before and after the step, and a store
\* opened after a crash at that step loads one of the two.
C26_AtomicWrites ==
    [][/\ TargetsWhole
       /\ \A t \in Threads :
            svc[t].pc \in SavePcs =>
                /\ svc[t].file \notin fs'.torn
                /\ IF svc[t].file = "pending.json"
                   THEN diskPending' \in {svc[t].before, svc[t].data}
                   ELSE diskPaired' \in {svc[t].before, svc[t].data}
                /\ fs'.boots # fs.boots =>
                        IF svc[t].file = "pending.json"
                        THEN memPending' \in {svc[t].before, svc[t].data}
                        ELSE memPaired' \in {svc[t].before, svc[t].data}
    ]_vars

\* a crash between the write of the .tmp file and the rename has happened:
\* the store was opened again with the whole .tmp file left behind
C26_Witness ==
    /\ fs.boots > 0
    /\ \E f \in FileNames : fs.tmp[f] # Nil /\ fs.tmp[f][1].whole /\ fs.tmp[f][1].data # Target(f)
    /\ \A f \in FileNames : Mem(f) = Target(f)

\* C27: after the context is cancelled the listener stops accepting and every
\* tracked session, also one accepted while the cancellation is handled, has
\* its transport closed and reaches closed, and Server.conns is then empty.
C27_ShutdownDrains ==
    srv.ctxDone ~> (/\ ~srv.listening
                    /\ \A c \in Conns : conn[c].pc \in {"listen", "done"})

\* C28: on shutdown an authenticated session has been sent the "shutdown"
\* event when the server closes its transport.
C28_ShutdownEventBeforeClose ==
    [][\A c \in Conns :
        (/\ srv' # srv
         /\ conn[c].State = "authenticated"
         /\ ~conn[c].wsClosed
         /\ conn'[c].wsClosed) => conn[c].shutdownSent
    ]_vars

\* the error codes of a handshake that fails before the pairing decision
PrePairingErrors ==
    {"UNAUTHORIZED", "PROTOCOL_MISMATCH", "INVALID_SIGNATURE", "INVALID_NONCE",
     "INVALID_DEVICE_ID"}

\* C29: a handshake that fails with a legacy auth failure, a protocol
\* mismatch, an invalid signature, a nonce mismatch or a device-id mismatch
\* never calls the pairing service, and none of its steps, from the accept to
\* the end of the session, changes the pending requests or the paired devices,
\* in memory or on disk.
C29_FailedHandshakeKeepsPairing ==
    /\ [](\A c \in Conns : conn[c].reply \in PrePairingErrors => svc[c] = NoFrame)
    /\ [][\A c \in Conns :
            (/\ conn'[c] # conn[c]
             /\ \/ conn[c].pc \in {"accept", "read1"} /\ conn'[c].pc # "vd_cps"
                \/ conn[c].reply \in PrePairingErrors
                \/ conn'[c].reply \in PrePairingErrors)
                => /\ storeVars' = storeVars
                   /\ svc' = svc
                   /\ nextReq' = nextReq
                   /\ nextTok' = nextTok]_vars

\* C29 witness: a session answered a replayed device payload with
\* INVALID_NONCE while the store holds the pending request of a device
C29_Witness ==
    \E c \in Conns :
        /\ conn[c].reply = "INVALID_NONCE"
        /\ conn[c].pc = "shutdown"
        /\ DOMAIN memPending # {}

\* the reasons of VerifyDeviceToken in the order of the claim
VerifyReasons ==
    <<"device-not-paired", "token-missing", "token-revoked", "token-mismatch",
      "scope-mismatch">>

\* which of the five conditions the call f meets in the store as it is
VerifyPasses(f) ==
    LET paired == f.DeviceID \in DOMAIN memPaired
        present == paired /\ f.Role \in DOMAIN memPaired[f.DeviceID].Tokens
        tok == memPaired[f.DeviceID].Tokens[f.Role]
    IN  <<paired,
          present,
          present /\ tok.RevokedAtMs = 0,
          present /\ tok.Token = f.Token,
          present /\ scopesContainAll(tok.Scopes, f.Scopes)>>

\* C30: VerifyDeviceToken reports the reason of the first of the five checks
\* (device-not-paired, token-missing, token-revoked, token-mismatch,
\* scope-mismatch) that fails and changes nothing then; it goes on to the
\* write of lastUsed only when all five pass, returns ok only from that write,
\* and no other step of a call changes the paired devices.
C30_VerifyOrder ==
    [][\A t \in TokenCallers :
        (svc[t].op = "Verify" /\ svc'[t] # svc[t]) =>
            LET f == svc[t]
                passes == VerifyPasses(f)
                failing == {k \in 1..5 : ~passes[k]}
                first == CHOOSE k \in failing : \A j \in failing : k <= j
            IN  /\ (f.pc = "vt_get" /\ failing # {})
                        => /\ svc'[t].pc = "ret"
                           /\ svc'[t].status = "fail"
                           /\ svc'[t].reason = VerifyReasons[first]
                /\ (f.pc = "vt_get" /\ failing = {})
                        => /\ svc'[t].pc = "vt_set"
                           /\ svc'[t].status # "ok"
                /\ svc'[t].status = "ok" => f.pc = "vt_set"
                /\ f.pc = "vt_set"
                        => /\ svc'[t].status = "ok"
                           /\ memPaired'[f.DeviceID].Tokens[f.Role].LastUsedMs = now
                           /\ memPaired'[f.DeviceID].Tokens[f.Role].Token = f.Token
                /\ f.pc # "vt_set" => storeVars' = storeVars
    ]_vars

\* C30 witness: a call presenting a wrong token for a revoked token was
\* answered token-revoked
C30_Witness ==
    \E t \in TokenCallers :
        /\ svc[t].op = "Verify"
        /\ svc[t].pc = "ret"
        /\ svc[t].reason = "token-revoked"
        /\ memPaired[svc[t].DeviceID].Tokens[svc[t].Role].Token # svc[t].Token

\* the token values the store holds
StoredTokenValues ==
    UNION {{memPaired[d].Tokens[r].Token : r \in DOMAIN memPaired[d].Tokens} :
           d \in DOMAIN memPaired}

\* C31: EnsureDeviceToken of an unpaired device returns absent and writes
\* nothing; when the stored token of the role is not revoked and has all the
\* requested scopes it returns that token as it is stored and writes nothing;
\* otherwise it stores and returns a token with a value no stored token has,
\* not revoked, with the requested scopes, and with rotatedAt set exactly
\* when the role had a token.
C31_EnsureContract ==
    [][\A t \in TokenCallers :
        (svc[t].op = "Ensure" /\ svc'[t] # svc[t]) =>
            LET f == svc[t]
                paired == f.DeviceID \in DOMAIN memPaired
                exists == paired /\ f.Role \in DOMAIN memPaired[f.DeviceID].Tokens
                tok == memPaired[f.DeviceID].Tokens[f.Role]
                good == exists /\ tok.RevokedAtMs = 0
                               /\ scopesContainAll(tok.Scopes, f.Scopes)
                new == svc'[t].tok[1]
            IN  /\ (f.pc = "en_get" /\ ~paired)
                    => /\ svc'[t].pc = "ret"
                       /\ svc'[t].outTok = Nil
                       /\ storeVars' = storeVars
                /\ (f.pc = "en_get" /\ good)
                    => /\ svc'[t].pc = "ret"
                       /\ svc'[t].outTok = Ptr(tok)
                       /\ storeVars' = storeVars
                /\ (f.pc = "en_get" /\ paired /\ ~good)
                    => /\ svc'[t].pc = "en_set"
                       /\ new.Token \notin StoredTokenValues
                       /\ new.Token # 0
                       /\ new.Role = f.Role
                       /\ new.Scopes = f.Scopes
                       /\ new.RevokedAtMs = 0
                       /\ (new.RotatedAtMs # 0) = exists
                       /\ exists => new.RotatedAtMs = now
                       /\ storeVars' = storeVars
                /\ f.pc = "en_set"
                    => /\ svc'[t].pc = "ret"
                       /\ svc'[t].outTok = f.tok
                       /\ memPaired'[f.DeviceID].Tokens[f.Role] = f.tok[1]
                       /\ \A r \in DOMAIN memPaired[f.DeviceID].Tokens \ {f.Role} :
                            memPaired'[f.DeviceID].Tokens[r] = memPaired[f.DeviceID].Tokens[r]
                       /\ memPending' = memPending
                /\ f.pc = "ret" => storeVars' = storeVars
    ]_vars

\* C31 witness: a call for a role that had no token has stored and returned
\* a token that is not rotated, while the token of the other role, which was
\* revoked, has been replaced by a rotated one
C31_Witness ==
    \E t \in TokenCallers :
        /\ svc[t].op = "Ensure"
        /\ svc[t].pc = "ret"
        /\ svc[t].Role = "operator"
        /\ svc[t].outTok # Nil
        /\ svc[t].outTok[1].RotatedAtMs = 0
        /\ memPaired["dA"].Tokens["operator"] = svc[t].outTok[1]
        /\ memPaired["dA"].Tokens["node"].RotatedAtMs # 0

\* what a call of PruneExpiredPending by t at the current time has to have
\* done in a step
PrunedExactly(t) ==
    LET gone == {id \in DOMAIN memPending : now - memPending[id].Timestamp > 300000}
    IN  /\ svc'[t].op = "PruneExpiredPending"
        /\ DOMAIN memPending' = (DOMAIN memPending) \ gone
        /\ \A id \in DOMAIN memPending' : memPending'[id] = memPending[id]
        /\ svc'[t].pruned = Cardinality(gone)
        /\ memPaired' = memPaired
        /\ diskPaired' = diskPaired

\* C32: PruneExpiredPending(t) removes exactly the pending requests with
\* t - timestamp > 300000, so one whose age is 300000 stays; it returns the
\* number removed and leaves the other requests and the paired devices as
\* they were. The call is the step that returns into the frame of its
\* caller, and the only one that makes the pending map smaller.
C32_PruneExact ==
    [][/\ \A t \in Ops :
            (svc'[t].op = "PruneExpiredPending" /\ svc'[t] # svc[t]) => PrunedExactly(t)
       /\ (DOMAIN memPending' # DOMAIN memPending /\ DOMAIN memPending' \subseteq DOMAIN memPending)
            => \E t \in Ops : PrunedExactly(t)
    ]_vars

\* C32 witness: a call has removed one request and kept the one whose age is
\* exactly 300000, with a paired device in the store
C32_Witness ==
    \E t \in Ops :
        /\ svc[t].op = "PruneExpiredPending"
        /\ svc[t].pruned = 1
        /\ \E id \in DOMAIN memPending : now - memPending[id].Timestamp = 300000
        /\ DOMAIN memPaired # {}

\* the ids of the Invoke calls that have registered and not yet returned
Outstanding == {inv[i].id : i \in {j \in Callers : inv[j].pc \in {"send", "wait", "defer"}}}

\* C33: HandleResult for an id that no outstanding invocation has (an id
\* never minted, or one whose Invoke has returned) returns false and leaves
\* the pending map, every entry and every Invoke call as they were.
C33_UnknownResultDiscarded ==
    [][\A c \in Conns : \A r \in AnyResults :
        (/\ conn[c].pc = "loop"
         /\ conn'[c].pc \in {"hr_send", "hr_ret"}
         /\ conn'[c].hr = r
         /\ r.ID \notin Outstanding)
            => /\ conn'[c].pc = "hr_ret"
               /\ conn'[c].hrRet = FALSE
               /\ pending' = pending
               /\ pi' = pi
               /\ inv' = inv
    ]_vars

\* C33 witness: a result for an invocation whose Invoke has returned was
\* answered false while another invocation waits
C33_Witness ==
    \E c \in Conns, i \in Callers, j \in Callers :
        /\ conn[c].pc = "hr_ret"
        /\ ~conn[c].hrRet
        /\ inv[i].pc = "returned"
        /\ inv[i].id = conn[c].hr.ID
        /\ inv[i].id # 0
        /\ inv[j].pc = "wait"

\* the Invoke calls that have left their select without a result
LeftWithout(i) ==
    /\ inv[i].pc \in {"defer", "returned"}
    /\ inv[i].ret \in {"invoke timeout", "node disconnected", "context canceled"}

\* the results waiting in the result channel of pending entry id
Buffered(id) == {pi[id].result[k] : k \in 1..Len(pi[id].result)}

\* C38 as stated: a result HandleResult has accepted with true is returned by
\* the Invoke call that minted its id; no such call leaves with a timeout,
\* "node disconnected" or a context error while a result accepted for it
\* sits in its channel.
C38_TrueMeansReturned ==
    \A i \in Callers : LeftWithout(i) => Buffered(inv[i].id) = {}

\* C38 amended: HandleResult returns true exactly when it has put the result
\* into the channel of the pending entry registered under the result's id,
\* from where only the Invoke call that minted the id can take it; an Invoke
\* call that returns a result returns one that was delivered for its own id.
C38_TrueMeansDelivered ==
    /\ \A c \in Conns :
            (conn[c].pc = "hr_ret" /\ conn[c].hrRet)
                => /\ conn[c].hr.ID \in InvokeIds
                   /\ \/ conn[c].hr \in Buffered(conn[c].hr.ID)
                      \/ \E i \in Callers : /\ inv[i].id = conn[c].hr.ID
                                             /\ inv[i].ret = "result"
                                             /\ inv[i].res = conn[c].hr
    /\ \A id \in InvokeIds : \A r \in Buffered(id) : r.ID = id
    /\ \A i \in Callers : inv[i].ret = "result" => inv[i].res.ID = inv[i].id

\* C38 witness: HandleResult has returned true for the id of an Invoke call
\* that had already left with a timeout
C38_Witness ==
    \E c \in Conns, i \in Callers :
        /\ conn[c].pc = "hr_ret"
        /\ conn[c].hrRet
        /\ inv[i].id = conn[c].hr.ID
        /\ inv[i].pc = "defer"
        /\ inv[i].ret = "invoke timeout"

\* C39: the entry is registered before the request is emitted, so
\* HandleResult called for the id of an emitted request whose Invoke has not
\* returned finds the entry and returns true: the lookup succeeds, and the
\* send that follows it can complete, the channel having room or the Invoke
\* still being in its select to make room.
C39_EmittedResultAccepted ==
    [][\A c \in Conns : \A r \in AnyResults :
        (/\ conn[c].pc = "loop"
         /\ conn'[c].pc \in {"hr_send", "hr_ret"}
         /\ conn'[c].hr = r
         /\ r.ID \in Emitted \cap Outstanding)
            => /\ conn'[c].pc = "hr_send"
               /\ conn'[c].hrPi = r.ID
               /\ \/ Len(pi[r.ID].result) < ResultChanCap
                  \/ \E i \in Callers : inv[i].id = r.ID /\ inv[i].pc = "wait"
    ]_vars

\* C34: CancelPendingForNode(n) closes the cancel channel of every pending
\* invocation registered for n that it found, so that each of them returns
\* "node disconnected", and of no other: the entries of other nodes, the
\* result channels, the pending map and the Invoke calls are left alone.
C34_CancelExactly ==
    [][\A c \in Conns :
        /\ (conn[c].pc = "cp_close" /\ conn'[c].pc # "cp_close")
                => \A id \in conn'[c].toCancel :
                        (\E i \in Callers : inv[i].pc = "wait" /\ inv[i].id = id)
                            => pi'[id].cancel > 0
        /\ (conn[c].pc \in {"cp_collect", "cp_close"} /\ conn'[c] # conn[c])
                => /\ \A id \in InvokeIds :
                        pi'[id] # pi[id]
                            => /\ pi[id].nodeID = conn[c].unreg
                               /\ pi'[id].result = pi[id].result
                   /\ pending' = pending
                   /\ inv' = inv
    ]_vars

====
